---- MODULE Spec2Model ----
(***************************************************************************)
(* Frigate alert relay: the poll loop of index.js (fetchFrigateEvents,     *)
(* processEvent), the schedule and recipient resolution of config.js, the  *)
(* media cascade of frigate.js and the fan-out of telegram.js.             *)
(*                                                                         *)
(* Conventions.  A JavaScript value that may be undefined is a sequence of *)
(* length 0 (Absent) or 1 (Some(v)).  A "HH:MM" string is the sequence of  *)
(* its characters; the empty sequence stands for an undefined string.  A   *)
(* tri-state flag is "undefined", "true" or "false".  Times are seconds.   *)
(***************************************************************************)
EXTENDS Integers, Sequences, FiniteSets, TLC

VARIABLES
    config,         \* the parsed config.json, read-only after load
    now,            \* the wall clock (seconds, local time)
    feed,           \* what GET /events returns, newest first
    lastEvent,      \* watermark: id of the newest event of the last scan
    lastTimestamp,  \* watermark: the rolling start_time cutoff
    ticks,          \* how many times the interval timer has fired
    cycles,         \* the fetchFrigateEvents calls that are in flight
    outcomes,       \* how each poll cycle ended, by tick number (history)
    skipped,        \* the events a scan passed over, and by which check (history)
    units,          \* every processEvent call made so far, in call order
    resolved        \* the latest shouldAlertGroup call and what it returned

vars ==
    <<config, now, feed, lastEvent, lastTimestamp, ticks, cycles, outcomes, skipped, units,
      resolved>>

-----------------------------------------------------------------------------
(* Bounds of the exploration *)

MaxTicks == 3       \* timer ticks explored
MaxEvents == 3      \* events the source ever publishes
MaxInFlight == 2    \* poll cycles in flight at once
MaxClock == 1       \* clock advances while units run
MaxUnits == 2       \* units running side by side

-----------------------------------------------------------------------------
(* Optional values and strings *)

Absent == <<>>
Some(v) == <<v>>
IsSet(o) == Len(o) > 0

\* the one element of a singleton: the values handed to an operator this way
\* are computed once
Only(S) == CHOOSE x \in S : TRUE

NaN == -1

Digits == {"0", "1", "2", "3", "4", "5", "6", "7", "8", "9"}

DigitVal(c) ==
    CASE c = "0" -> 0 [] c = "1" -> 1 [] c = "2" -> 2 [] c = "3" -> 3
      [] c = "4" -> 4 [] c = "5" -> 5 [] c = "6" -> 6 [] c = "7" -> 7
      [] c = "8" -> 8 [] c = "9" -> 9

HM(a, b, c, d) == <<a, b, ":", c, d>>

RECURSIVE SplitFrom(_, _, _, _)
SplitFrom(s, sep, i, cur) ==
    IF i > Len(s) THEN <<cur>>
    ELSE IF s[i] = sep THEN <<cur>> \o SplitFrom(s, sep, i + 1, <<>>)
    ELSE SplitFrom(s, sep, i + 1, Append(cur, s[i]))

\* String.prototype.split(sep)
Split(s, sep) == SplitFrom(s, sep, 1, <<>>)

RECURSIVE DecimalOf(_, _)
DecimalOf(s, acc) ==
    IF s = <<>> THEN acc ELSE DecimalOf(Tail(s), acc * 10 + DigitVal(Head(s)))

\* Number(x) for a string of decimal digits; anything else is NaN
Number(s) ==
    IF \A i \in 1..Len(s) : s[i] \in Digits THEN DecimalOf(s, 0) ELSE NaN

\* a * 60 + b in IEEE arithmetic, where undefined and NaN give NaN
MinutesOf(parts) ==
    IF Len(parts) < 2 THEN NaN
    ELSE Only({IF h = NaN \/ m = NaN THEN NaN ELSE h * 60 + m :
                   h \in {Number(parts[1])}, m \in {Number(parts[2])}})

\* <= and >= are false as soon as one side is NaN
Leq(a, b) == a # NaN /\ b # NaN /\ a <= b
Geq(a, b) == a # NaN /\ b # NaN /\ a >= b

-----------------------------------------------------------------------------
(* config.js: accessors *)

RECURSIVE FindGroup(_, _)
FindGroup(groups, name) ==
    IF groups = <<>> THEN Absent
    ELSE IF Head(groups).name = name THEN Some(Head(groups))
    ELSE FindGroup(Tail(groups), name)

\* config.groups?.[groupName]
GroupConfig(groupName) == FindGroup(config.groups, groupName)

\* config.cameras?.[cameraName]
CameraConfig(cameraName) ==
    IF cameraName \in DOMAIN config.cameras
    THEN Some(config.cameras[cameraName]) ELSE Absent

\* cameraConfig?.group_schedules?.[groupName]
CameraGroupConfig(cameraName, groupName) ==
    LET cameraConfig == CameraConfig(cameraName)
    IN  IF IsSet(cameraConfig) /\ groupName \in DOMAIN cameraConfig[1].group_schedules
        THEN Some(cameraConfig[1].group_schedules[groupName]) ELSE Absent

\* layer?.schedule?.[field]
ScheduleField(layer, field) ==
    IF IsSet(layer) /\ IsSet(layer[1].schedule) THEN layer[1].schedule[1][field] ELSE <<>>

\* an anchor test that would look at always_send alone
HasScheduleIgnored(layer) == FALSE

\* layer?.schedule is truthy
HasSchedule(layer) == IsSet(layer) /\ IsSet(layer[1].schedule)

\* layer?.always_send
AlwaysSendOf(layer) == IF IsSet(layer) THEN layer[1].always_send ELSE "undefined"

\* a || b for strings
OrElse(a, b) == IF a # <<>> THEN a ELSE b

\* a ?? b for tri-state flags
Coalesce(a, b) == IF a # "undefined" THEN a ELSE b

Object_keys(groups) == [i \in 1..Len(groups) |-> groups[i].name]

MEDIA_RETRY_ATTEMPTS ==
    IF config.media_retry_attempts # 0 THEN config.media_retry_attempts ELSE 4

WEBHOOK_URL == config.webhook_url

\* in seconds
MEDIA_RETRY_DELAY ==
    IF config.media_retry_delay_seconds # 0 THEN config.media_retry_delay_seconds ELSE 3

MIN_BUFFER_SIZE == 1024

\* in seconds
POLL_INTERVAL ==
    IF config.poll_interval_seconds # 0 THEN config.poll_interval_seconds ELSE 10

-----------------------------------------------------------------------------
(* config.js: groups of a camera *)

getGroupNamesForCamera(cameraName) ==
    LET cameraConfig == CameraConfig(cameraName)
    IN  IF IsSet(cameraConfig) /\ IsSet(cameraConfig[1].groups) THEN cameraConfig[1].groups[1]
        ELSE IF IsSet(config.default_groups) THEN config.default_groups[1]
        ELSE Object_keys(config.groups)

\* a filter that would ignore the enabled flag
GroupEnabledIgnored(name) == TRUE

GroupEnabledNotFalse(name) ==
    LET g == GroupConfig(name) IN ~(IsSet(g) /\ g[1].enabled = "false")

ChatIdOf(name) ==
    LET g == GroupConfig(name) IN IF IsSet(g) THEN g[1].chat_id ELSE ""

\* a filter that would keep the groups without chat id
getGroupsForCameraAnyChat(cameraName) ==
    LET groupNames == getGroupNamesForCamera(cameraName)
        enabled == SelectSeq(groupNames, GroupEnabledNotFalse)
    IN  [i \in 1..Len(enabled) |-> [name |-> enabled[i], chat_id |-> ChatIdOf(enabled[i])]]

getGroupsForCamera(cameraName) ==
    LET groupNames == getGroupNamesForCamera(cameraName)
        enabled == SelectSeq(groupNames, GroupEnabledNotFalse)
        mapped == [i \in 1..Len(enabled) |->
                      [name |-> enabled[i], chat_id |-> ChatIdOf(enabled[i])]]
        HasChat(g) == g.chat_id # ""
    IN  SelectSeq(mapped, HasChat)

-----------------------------------------------------------------------------
(* config.js: schedules *)

nowMinutes == (now \div 60) % (24 * 60)

\* a window test that would leave out both ends
isWithinScheduleExclusive(startTime, endTime) ==
    IF startTime = <<>> \/ endTime = <<>> THEN [threw |-> TRUE, val |-> FALSE]
    ELSE LET Within(startMinutes, endMinutes) ==
                 IF Leq(startMinutes, endMinutes)
                 THEN /\ Geq(nowMinutes, startMinutes) /\ nowMinutes # startMinutes
                      /\ Leq(nowMinutes, endMinutes) /\ nowMinutes # endMinutes
                 ELSE \/ Geq(nowMinutes, startMinutes) /\ nowMinutes # startMinutes
                      \/ Leq(nowMinutes, endMinutes) /\ nowMinutes # endMinutes
         IN  [threw |-> FALSE,
              val |-> Only({Within(MinutesOf(startParts), MinutesOf(endParts)) :
                                startParts \in {Split(startTime, ":")},
                                endParts \in {Split(endTime, ":")}})]

\* [threw |-> TRUE] models the TypeError of undefined.split
isWithinSchedule(startTime, endTime) ==
    IF startTime = <<>> \/ endTime = <<>> THEN [threw |-> TRUE, val |-> FALSE]
    ELSE LET Within(startMinutes, endMinutes) ==
                 IF Leq(startMinutes, endMinutes)
                 THEN Geq(nowMinutes, startMinutes) /\ Leq(nowMinutes, endMinutes)
                 ELSE Geq(nowMinutes, startMinutes) \/ Leq(nowMinutes, endMinutes)
         IN  [threw |-> FALSE,
              val |-> Only({Within(MinutesOf(startParts), MinutesOf(endParts)) :
                                startParts \in {Split(startTime, ":")},
                                endParts \in {Split(endTime, ":")}})]

defaultSchedule ==
    IF IsSet(config.default_schedule) THEN config.default_schedule[1]
    ELSE [start_time |-> HM("0", "0", "0", "0"),
          end_time |-> HM("2", "3", "5", "9"),
          always_send |-> "false"]

\* a resolution that would take the whole schedule from the most specific
\* layer that sets anything, and go to the default for what that layer lacks
getScheduleBlockWise(cameraName, groupName) ==
    LET cameraConfig == CameraConfig(cameraName)
        groupConfig == GroupConfig(groupName)
        cameraGroupConfig == CameraGroupConfig(cameraName, groupName)
        From(layer) ==
            [start_time |-> OrElse(ScheduleField(layer, "start_time"),
                                   defaultSchedule.start_time),
             end_time |-> OrElse(ScheduleField(layer, "end_time"), defaultSchedule.end_time),
             always_send |-> Coalesce(AlwaysSendOf(layer),
                             Coalesce(defaultSchedule.always_send, "false"))]
    IN  IF HasSchedule(cameraGroupConfig) \/ AlwaysSendOf(cameraGroupConfig) # "undefined"
        THEN From(cameraGroupConfig)
        ELSE IF HasSchedule(cameraConfig) \/ AlwaysSendOf(cameraConfig) # "undefined"
        THEN From(cameraConfig)
        ELSE IF HasSchedule(groupConfig) \/ AlwaysSendOf(groupConfig) # "undefined"
        THEN From(groupConfig)
        ELSE From(Absent)

getScheduleForCameraAndGroup(cameraName, groupName) ==
    LET cameraConfig == CameraConfig(cameraName)
        groupConfig == GroupConfig(groupName)
        cameraGroupConfig == CameraGroupConfig(cameraName, groupName)
    IN  IF HasSchedule(cameraGroupConfig) \/ AlwaysSendOf(cameraGroupConfig) # "undefined"
        THEN [start_time |->
                 OrElse(ScheduleField(cameraGroupConfig, "start_time"),
                 OrElse(ScheduleField(cameraConfig, "start_time"),
                 OrElse(ScheduleField(groupConfig, "start_time"),
                        defaultSchedule.start_time))),
              end_time |->
                 OrElse(ScheduleField(cameraGroupConfig, "end_time"),
                 OrElse(ScheduleField(cameraConfig, "end_time"),
                 OrElse(ScheduleField(groupConfig, "end_time"),
                        defaultSchedule.end_time))),
              always_send |->
                 Coalesce(AlwaysSendOf(cameraGroupConfig),
                 Coalesce(AlwaysSendOf(cameraConfig),
                 Coalesce(AlwaysSendOf(groupConfig),
                 Coalesce(defaultSchedule.always_send, "false"))))]
        ELSE IF HasSchedule(cameraConfig) \/ AlwaysSendOf(cameraConfig) # "undefined"
        THEN [start_time |->
                 OrElse(ScheduleField(cameraConfig, "start_time"),
                 OrElse(ScheduleField(groupConfig, "start_time"),
                        defaultSchedule.start_time)),
              end_time |->
                 OrElse(ScheduleField(cameraConfig, "end_time"),
                 OrElse(ScheduleField(groupConfig, "end_time"),
                        defaultSchedule.end_time)),
              always_send |->
                 Coalesce(AlwaysSendOf(cameraConfig),
                 Coalesce(AlwaysSendOf(groupConfig),
                 Coalesce(defaultSchedule.always_send, "false")))]
        ELSE IF HasSchedule(groupConfig) \/ AlwaysSendOf(groupConfig) # "undefined"
        THEN [start_time |->
                 OrElse(ScheduleField(groupConfig, "start_time"), defaultSchedule.start_time),
              end_time |->
                 OrElse(ScheduleField(groupConfig, "end_time"), defaultSchedule.end_time),
              always_send |->
                 Coalesce(AlwaysSendOf(groupConfig),
                 Coalesce(defaultSchedule.always_send, "false"))]
        ELSE [start_time |-> defaultSchedule.start_time,
              end_time |-> defaultSchedule.end_time,
              always_send |-> Coalesce(defaultSchedule.always_send, "false")]

\* a check that would not look at always_send
shouldAlertGroupWindowOnly(cameraName, groupName) ==
    LET Decide(schedule) == isWithinSchedule(schedule.start_time, schedule.end_time)
    IN  Only({Decide(schedule) :
                  schedule \in {getScheduleForCameraAndGroup(cameraName, groupName)}})

shouldAlertGroup(cameraName, groupName) ==
    LET Decide(schedule) ==
            IF schedule.always_send = "true" THEN [threw |-> FALSE, val |-> TRUE]
            ELSE isWithinSchedule(schedule.start_time, schedule.end_time)
    IN  Only({Decide(schedule) :
                  schedule \in {getScheduleForCameraAndGroup(cameraName, groupName)}})

\* Array.prototype.filter with a predicate that may throw: the first throw
\* aborts the whole call
RECURSIVE FilterAlert(_, _)
FilterAlert(cameraName, groups) ==
    IF groups = <<>> THEN [threw |-> FALSE, val |-> <<>>]
    ELSE LET Keep(first, rest) ==
                 IF first.threw THEN [threw |-> TRUE, val |-> <<>>]
                 ELSE IF rest.threw THEN rest
                 ELSE [threw |-> FALSE,
                       val |-> IF first.val THEN <<Head(groups)>> \o rest.val
                               ELSE rest.val]
         IN  Only({Keep(first, rest) :
                       first \in {shouldAlertGroup(cameraName, Head(groups).name)},
                       rest \in {FilterAlert(cameraName, Tail(groups))}})

getGroupsToAlert(event) ==
    LET WithSchedule(kept) ==
            IF kept.threw THEN kept
            ELSE [threw |-> FALSE,
                  val |-> [i \in 1..Len(kept.val) |->
                              [name |-> kept.val[i].name,
                               chat_id |-> kept.val[i].chat_id,
                               schedule |-> getScheduleForCameraAndGroup(
                                                event.camera, kept.val[i].name)]]]
    IN  Only({WithSchedule(kept) :
                  kept \in {FilterAlert(event.camera, allGroups) :
                                 allGroups \in {getGroupsForCamera(event.camera)}}})

shouldAlertAnyGroup(event) ==
    LET NonEmpty(groupsToAlert) ==
            [threw |-> groupsToAlert.threw, val |-> Len(groupsToAlert.val) > 0]
    IN  NonEmpty(getGroupsToAlert(event))

getAllowedLabels(cameraName) ==
    LET cameraConfig == CameraConfig(cameraName)
    IN  IF IsSet(cameraConfig) THEN cameraConfig[1].labels ELSE Absent

\* a check that would allow nothing for a camera without a list
isLabelAllowedListOnly(event) ==
    LET allowedLabels == getAllowedLabels(event.camera)
    IN  IF ~IsSet(allowedLabels) THEN FALSE
        ELSE \E i \in 1..Len(allowedLabels[1]) : allowedLabels[1][i] = event.label

isLabelAllowed(event) ==
    LET allowedLabels == getAllowedLabels(event.camera)
    IN  IF ~IsSet(allowedLabels) THEN TRUE
        ELSE \E i \in 1..Len(allowedLabels[1]) : allowedLabels[1][i] = event.label

-----------------------------------------------------------------------------
(* Configurations explored *)

NoSchedule == [schedule |-> Absent, always_send |-> "undefined"]

Window(s, e) == Some([start_time |-> s, end_time |-> e])

GroupEntry(name, chat_id, enabled, schedule, always_send) ==
    [name |-> name, chat_id |-> chat_id, enabled |-> enabled,
     schedule |-> schedule, always_send |-> always_send]

CameraEntry(schedule, always_send, groups, labels, group_schedules) ==
    [schedule |-> schedule, always_send |-> always_send, groups |-> groups,
     labels |-> labels, group_schedules |-> group_schedules]

\* front: every label; alerts family at night (22:10-06:00, start taken from
\* the camera-group override and end from the group) and lists a disabled
\* group, a group without chat id and an unknown group.  yard: person only;
\* security until 21:55, family from 22:00, and the same three extra groups.
\* gate: no entry, so every group is asked; security and family at all times.
ConfigNight ==
    [groups |-> <<
        GroupEntry("family", "chat-family", "undefined",
                   Window(HM("2", "1", "0", "0"), HM("0", "6", "0", "0")), "undefined"),
        GroupEntry("security", "chat-security", "true", Absent, "undefined"),
        GroupEntry("off", "chat-off", "false", Absent, "true"),
        GroupEntry("nochat", "", "undefined", Absent, "true")>>,
     cameras |-> [c \in {"front", "yard"} |->
        IF c = "front"
        THEN CameraEntry(Absent, "undefined",
                         Some(<<"family", "off", "nochat", "ghost">>),
                         Absent,
                         [g \in {"family"} |->
                             [schedule |-> Window(HM("2", "2", "1", "0"), <<>>),
                              always_send |-> "undefined"]])
        ELSE CameraEntry(Absent, "undefined",
                         Some(<<"security", "off", "family", "nochat", "ghost">>),
                         Some(<<"person">>),
                         [g \in {"security", "family"} |->
                             IF g = "security"
                             THEN [schedule |-> Window(HM("2", "1", "0", "0"),
                                                       HM("2", "1", "5", "5")),
                                   always_send |-> "undefined"]
                             ELSE [schedule |-> Window(HM("2", "2", "0", "0"), <<>>),
                                   always_send |-> "undefined"]])],
     default_schedule |-> Absent,
     default_groups |-> Absent,
     poll_interval_seconds |-> 5 * 60,
     media_retry_attempts |-> 2,
     media_retry_delay_seconds |-> 0,
     webhook_url |-> "http://hook"]

\* No camera entries: every camera falls back to default_groups.  The default
\* schedule sets always_send only, so a group without a window of its own
\* resolves to undefined times.
ConfigPartialDefault ==
    [groups |-> <<
        GroupEntry("family", "chat-family", "undefined",
                   Window(HM("2", "2", "0", "0"), HM("0", "6", "0", "0")), "undefined"),
        GroupEntry("security", "chat-security", "undefined", Absent, "undefined")>>,
     cameras |-> [c \in {"front"} |->
        CameraEntry(Absent, "undefined", Some(<<"family">>), Absent,
                    [g \in {} |-> NoSchedule])],
     default_schedule |-> Some([start_time |-> <<>>, end_time |-> <<>>,
                                always_send |-> "false"]),
     default_groups |-> Some(<<"family", "security">>),
     poll_interval_seconds |-> 5 * 60,
     media_retry_attempts |-> 0,
     media_retry_delay_seconds |-> 1,
     webhook_url |-> ""]

\* One group that is always alerted, no camera entries, one retry.
ConfigSingleGroup ==
    [groups |-> <<GroupEntry("family", "chat-family", "undefined", Absent, "true")>>,
     cameras |-> [c \in {} |-> CameraEntry(Absent, "undefined", Absent, Absent,
                                           [g \in {} |-> NoSchedule])],
     default_schedule |-> Absent,
     default_groups |-> Absent,
     poll_interval_seconds |-> 5 * 60,
     media_retry_attempts |-> 2,
     media_retry_delay_seconds |-> 1,
     webhook_url |-> ""]

\* ConfigPartialDefault with the window of family opening at 22:10: an event
\* of front is outside it at the first two ticks and inside it at the third.
ConfigLateWindow ==
    [ConfigPartialDefault EXCEPT
        !.groups[1].schedule = Window(HM("2", "2", "1", "0"), HM("0", "6", "0", "0"))]

\* ConfigNight with yard alerting security alone, whose window for yard ends
\* with 21:55: an event of yard handed over at 21:55 has no group left at 22:00.
ConfigClosingWindow ==
    [ConfigNight EXCEPT
        !.cameras["yard"].groups = Some(<<"security", "off", "nochat", "ghost">>)]

Configs == {ConfigNight, ConfigPartialDefault}

-----------------------------------------------------------------------------
(* The clock and the source's events *)

StartOfRun == 21 * 3600 + 55 * 60

ClockStep == 5 * 60

\* body sizes a media request answers with
BodySizes == {MIN_BUFFER_SIZE - 1, MIN_BUFFER_SIZE}

\* The kinds of event the source publishes: camera, label, how long before its
\* publication the event started, whether a clip exists, whether it has ended.
Shape(camera, label, age, has_clip, ended) ==
    [camera |-> camera, label |-> label, age |-> age, has_clip |-> has_clip, ended |-> ended]

Shapes ==
    {Shape("front", "person", 0, TRUE, FALSE),
     Shape("front", "person", 15 * 60, FALSE, FALSE),
     Shape("yard", "car", 0, TRUE, TRUE)}

\* The events handed to units directly
DispatchShapes ==
    {Shape("yard", "person", 0, TRUE, FALSE),
     Shape("yard", "person", 0, FALSE, FALSE),
     Shape("gate", "person", 0, TRUE, TRUE),
     Shape("front", "person", 0, TRUE, TRUE)}

\* The events handed to units that run side by side: one still recording with
\* a clip, one still recording without
PairShapes ==
    {Shape("yard", "person", 0, TRUE, FALSE),
     Shape("yard", "person", 0, FALSE, FALSE)}

Event(id, camera, label, start_time, end_time, has_clip) ==
    [id |-> id, camera |-> camera, label |-> label, start_time |-> start_time,
     end_time |-> end_time, has_clip |-> has_clip]

-----------------------------------------------------------------------------
(* frigate.js / index.js: the start of an event-processing unit *)

\* a payload that would list only the groups to alert at that time
WebhookPayloadEligibleOnly(event) ==
    IF WEBHOOK_URL = "" THEN Absent
    ELSE LET groups == IF getGroupsToAlert(event).threw THEN <<>>
                       ELSE getGroupsToAlert(event).val
         IN  Some([event_id |-> event.id, camera |-> event.camera, label |-> event.label,
                   start_time |-> event.start_time, end_time |-> event.end_time,
                   groups |-> [i \in 1..Len(groups) |-> groups[i].name]])

\* the payload triggerWebhook posts, or Absent without a webhook URL
WebhookPayload(event) ==
    IF WEBHOOK_URL = "" THEN Absent
    ELSE LET groups == getGroupsForCamera(event.camera)
         IN  Some([event_id |-> event.id, camera |-> event.camera, label |-> event.label,
                   start_time |-> event.start_time, end_time |-> event.end_time,
                   groups |-> [i \in 1..Len(groups) |-> groups[i].name]])

\* a downloadVideo that would wait and assume end_time on every call
FirstStepOfAlwaysWaits(kind, event) ==
    IF kind = 1 THEN "clipwait" ELSE "download"

\* downloadVideo first waits for the recording when end_time is still absent
FirstStepOf(kind, event) ==
    IF kind = 1 /\ ~IsSet(event.end_time) THEN "clipwait" ELSE "download"

\* The synchronous part of processEvent: the webhook is posted, then send() is
\* either called at once (its first download is issued) or put behind a timer.
\* hook is how the webhook post stands: "none" without a webhook URL.
processEvent(event) ==
    [event |-> event,
     webhook |-> WebhookPayload(event),
     hook |-> IF IsSet(WebhookPayload(event)) THEN "posting" ELSE "none",
     pc |-> IF event.has_clip /\ ~IsSet(event.end_time) THEN "prewait"
            ELSE FirstStepOf(1, event),
     kind |-> 1,
     attempt |-> 1,
     send |-> Absent,
     accepted |-> {},
     body |-> Absent,
     assumed |-> Absent,
     log |-> <<>>]

-----------------------------------------------------------------------------
(* index.js: fetchFrigateEvents *)

\* The for loop over the fetched events: handed lists, in call order, the events
\* passed to processEvent; threw is set when a filter raised, which ends the loop;
\* skipped collects the events the loop passed over and the check that did it.
Skip(acc, event, why) == [acc EXCEPT !.skipped = @ \cup {[id |-> event.id, why |-> why]}]

\* The loop with one of its checks altered, to see that the properties below
\* tell the difference.
RECURSIVE ScanWith(_, _, _, _)
ScanWith(events, i, acc, flaw) ==
    IF i > Len(events) THEN acc
    ELSE LET event == events[i]
             stop == IF flaw = "past watermark" THEN ~IsSet(lastEvent)
                     ELSE IF flaw = "first cycle"
                     THEN IsSet(lastEvent) /\ event.id = lastEvent[1]
                     ELSE ~IsSet(lastEvent) \/ event.id = lastEvent[1]
             old == IF flaw = "cutoff inclusive" THEN event.start_time <= lastTimestamp
                    ELSE event.start_time < lastTimestamp
         IN
        IF stop THEN acc
        ELSE IF flaw # "any label" /\ ~isLabelAllowed(event)
        THEN ScanWith(events, i + 1, Skip(acc, event, "label"), flaw)
        ELSE LET Rest(any) ==
                     IF any.threw THEN [acc EXCEPT !.threw = TRUE]
                     ELSE IF flaw # "any schedule" /\ ~any.val
                     THEN Skip(acc, event, "schedule")
                     ELSE IF old THEN Skip(acc, event, "cutoff")
                     ELSE [acc EXCEPT !.handed = Append(@, event)]
                 Go(next) == IF next.threw THEN next ELSE ScanWith(events, i + 1, next, flaw)
             IN  Go(Rest(shouldAlertAnyGroup(event)))

ScanPastWatermark(events, i, acc) == ScanWith(events, i, acc, "past watermark")
ScanOnFirstCycle(events, i, acc) == ScanWith(events, i, acc, "first cycle")
ScanAnyLabel(events, i, acc) == ScanWith(events, i, acc, "any label")
ScanAnySchedule(events, i, acc) == ScanWith(events, i, acc, "any schedule")
ScanCutoffInclusive(events, i, acc) == ScanWith(events, i, acc, "cutoff inclusive")

RECURSIVE ScanFrom(_, _, _)
ScanFrom(events, i, acc) ==
    IF i > Len(events) THEN acc
    ELSE LET event == events[i] IN
        IF ~IsSet(lastEvent) \/ event.id = lastEvent[1] THEN acc
        ELSE IF ~isLabelAllowed(event) THEN ScanFrom(events, i + 1, Skip(acc, event, "label"))
        ELSE LET Rest(any) ==
                     IF any.threw THEN [acc EXCEPT !.threw = TRUE]
                     ELSE IF ~any.val THEN Skip(acc, event, "schedule")
                     ELSE IF event.start_time < lastTimestamp THEN Skip(acc, event, "cutoff")
                     ELSE [acc EXCEPT !.handed = Append(@, event)]
                 Go(next) == IF next.threw THEN next ELSE ScanFrom(events, i + 1, next)
             IN  Go(Rest(shouldAlertAnyGroup(event)))

Scan(events) == ScanFrom(events, 1, [handed |-> <<>>, threw |-> FALSE, skipped |-> {}])

\* a timer that would hold its tick back while a unit is running
TickAfterUnits ==
    /\ ticks < MaxTicks
    /\ Cardinality(cycles) < MaxInFlight
    /\ \A i \in 1..Len(units) : units[i].pc = "done"
    /\ ticks' = ticks + 1
    /\ now' = now + POLL_INTERVAL
    /\ cycles' = cycles \cup {[n |-> ticks + 1, pc |-> "fetch", events |-> feed]}
    /\ outcomes' = Append(outcomes, "running")
    /\ UNCHANGED <<config, feed, lastEvent, lastTimestamp, skipped, units, resolved>>

\* setInterval fires, POLL_INTERVAL after the previous tick: fetchFrigateEvents
\* is called and issues GET /events.  The cycle carries the list the source
\* answers with.
Tick ==
    /\ ticks < MaxTicks
    /\ Cardinality(cycles) < MaxInFlight
    /\ ticks' = ticks + 1
    /\ now' = now + POLL_INTERVAL
    /\ cycles' = cycles \cup {[n |-> ticks + 1, pc |-> "fetch", events |-> feed]}
    /\ outcomes' = Append(outcomes, "running")
    /\ UNCHANGED <<config, feed, lastEvent, lastTimestamp, skipped, units, resolved>>

\* a catch block that would reset the watermark
FetchFailResets(c) ==
    /\ c.pc = "fetch"
    /\ cycles' = cycles \ {c}
    /\ outcomes' = [outcomes EXCEPT ![c.n] = "failed"]
    /\ lastEvent' = Absent
    /\ lastTimestamp' = 0
    /\ UNCHANGED <<config, now, feed, ticks, skipped, units, resolved>>

\* fetchEvents rejects (network error, non-2xx): caught and logged
FetchFail(c) ==
    /\ c.pc = "fetch"
    /\ cycles' = cycles \ {c}
    /\ outcomes' = [outcomes EXCEPT ![c.n] = "failed"]
    /\ UNCHANGED <<config, now, feed, lastEvent, lastTimestamp, ticks, skipped, units,
                 resolved>>

\* a cycle that would rewrite the watermark fields for an empty list as well
FetchOkEmptyRewrites(c) ==
    /\ c.pc = "fetch"
    /\ IF Len(c.events) > 0
       THEN /\ cycles' = (cycles \ {c}) \cup {[c EXCEPT !.pc = "grace"]}
            /\ UNCHANGED <<outcomes, lastEvent, lastTimestamp>>
       ELSE /\ cycles' = cycles \ {c}
            /\ outcomes' = [outcomes EXCEPT ![c.n] = "empty"]
            /\ lastEvent' = Absent
            /\ lastTimestamp' = now - 10 * 60
    /\ UNCHANGED <<config, now, feed, ticks, skipped, units, resolved>>

\* fetchEvents resolves: an empty list ends the cycle, any other starts the
\* grace period
FetchOk(c) ==
    /\ c.pc = "fetch"
    /\ IF Len(c.events) > 0
       THEN /\ cycles' = (cycles \ {c}) \cup {[c EXCEPT !.pc = "grace"]}
            /\ UNCHANGED outcomes
       ELSE /\ cycles' = cycles \ {c}
            /\ outcomes' = [outcomes EXCEPT ![c.n] = "empty"]
    /\ UNCHANGED <<config, now, feed, lastEvent, lastTimestamp, ticks, skipped, units,
                 resolved>>

\* the grace period is over: the scan and the watermark rewrite, in one
\* run-to-completion step
GraceOver(c) ==
    /\ c.pc = "grace"
    /\ \E scan \in {Scan(c.events)} :
        /\ units' = units \o [i \in 1..Len(scan.handed) |-> processEvent(scan.handed[i])]
        /\ skipped' = skipped \cup scan.skipped
        /\ IF scan.threw
           THEN /\ UNCHANGED <<lastEvent, lastTimestamp>>
                /\ outcomes' = [outcomes EXCEPT ![c.n] = "threw"]
           ELSE /\ lastEvent' = Some(c.events[1].id)
                /\ lastTimestamp' = now - 10 * 60
                /\ outcomes' = [outcomes EXCEPT ![c.n] = "scanned"]
    /\ cycles' = cycles \ {c}
    /\ UNCHANGED <<config, now, feed, ticks, resolved>>

\* the source publishes an event at the head of its feed
NewEvent(shape) ==
    /\ Len(feed) < MaxEvents
    /\ LET start_time == now - shape.age
           end_time == IF shape.ended THEN Some(start_time + 30) ELSE Absent
       IN  feed' = <<Event(Len(feed) + 1, shape.camera, shape.label, start_time,
                          end_time, shape.has_clip)>> \o feed
    /\ UNCHANGED <<config, now, lastEvent, lastTimestamp, ticks, cycles, outcomes, skipped,
                 units, resolved>>

-----------------------------------------------------------------------------
(* index.js send(), frigate.js downloadWithRetry, telegram.js: one unit *)

\* getMediaDownloaders: 1 Video, 2 Snapshot, 3 Thumbnail
Downloaders == <<"video.mp4", "snapshot.jpg", "thumbnail.jpg">>

\* the alert text built by processEvent, and what send() adds to it once every
\* downloader has failed
Message == <<"Frigate Alert!">>

NoMediaMarker == "(No media available)"

\* What a unit did, in order (history): "fetch" is one attempt of
\* downloadWithRetry and whether it returned a buffer, "wait" the delay before
\* the next attempt, "media" and "text" a call of sendMediaAlertToGroups or
\* sendTextAlertToGroups with the groups it resolved and the text it carries.
Entry(op, kind, attempt, delay, to, ok, message) ==
    [op |-> op, kind |-> kind, attempt |-> attempt, delay |-> delay, to |-> to, ok |-> ok,
     message |-> message]

Logged(u, entry) == [u EXCEPT !.log = Append(@, entry)]

NamesOf(groups) == [i \in 1..Len(groups) |-> groups[i].name]

Delivery(group) ==
    [name |-> group.name, chat_id |-> group.chat_id, attempt |-> 1, status |-> "posting"]

\* one call of sendMediaAlertToGroups or sendTextAlertToGroups: the recipients
\* it resolved, when, and how each delivery stands
SendRecord(type, kind, groups) ==
    [type |-> type, kind |-> kind, at |-> now,
     deliveries |-> [i \in 1..Len(groups) |-> Delivery(groups[i])]]

\* download() of the given kind is called: attempt 1 of downloadWithRetry
StartDownload(u, kind) ==
    [u EXCEPT !.kind = kind, !.attempt = 1, !.pc = FirstStepOf(kind, u.event)]

\* sendTextAlertToGroups(event, message + "(No media available)"); a throw of
\* getGroupsToAlert rejects send(), which nothing catches
StartText(u) ==
    LET To(groups) ==
            IF groups.threw THEN [u EXCEPT !.pc = "rejected"]
            ELSE LET called == Logged(u, Entry("text", 0, 0, 0, NamesOf(groups.val),
                                               TRUE, Append(Message, NoMediaMarker)))
                 IN  [called EXCEPT !.pc = IF Len(groups.val) = 0 THEN "done" ELSE "texting",
                                    !.send = Some(SendRecord("text", 0, groups.val))]
    IN  Only({To(groups) : groups \in {getGroupsToAlert(u.event)}})

\* a loop that would end without the text alert
AfterKindNoText(u) ==
    IF u.kind < Len(Downloaders) THEN StartDownload(u, u.kind + 1) ELSE [u EXCEPT !.pc = "done"]

\* the for loop of send() goes on to the next downloader, or leaves the loop
AfterKind(u) ==
    IF u.kind < Len(Downloaders) THEN StartDownload(u, u.kind + 1) ELSE StartText(u)

\* a send to nobody that would count as accepted by all
SendToNoGroupEndsCascade(called) ==
    [called EXCEPT !.send = Some(SendRecord("media", called.kind, <<>>)), !.pc = "done"]

\* sendMediaAlertToGroups finds no group to alert: nothing is posted and it
\* returns false, so send() goes on with its loop
SendToNoGroup(called) ==
    AfterKind([called EXCEPT !.send = Some(SendRecord("media", called.kind, <<>>))])

\* a send that would keep the recipients of the unit's earlier send
StartMediaSameRecipients(u) ==
    LET To(groups) ==
            IF groups.threw THEN AfterKind(u)
            ELSE LET called == Logged(u, Entry("media", u.kind, 0, 0,
                                               NamesOf(groups.val), TRUE, Message))
                 IN  IF Len(groups.val) = 0
                     THEN AfterKind([called EXCEPT
                                        !.send = Some(SendRecord("media", u.kind, <<>>))])
                     ELSE [called EXCEPT !.pc = "sending",
                                         !.send = Some(SendRecord("media", u.kind, groups.val))]
    IN  IF IsSet(u.send)
        THEN To([threw |-> FALSE, val |-> u.send[1].deliveries])
        ELSE Only({To(groups) : groups \in {getGroupsToAlert(u.event)}})

\* sendMediaAlertToGroups(event, buffer, message, fileName), called as soon as
\* the download resolved; a throw of getGroupsToAlert lands in the loop's catch
StartMedia(u) ==
    LET To(groups) ==
            IF groups.threw THEN AfterKind(u)
            ELSE LET called == Logged(u, Entry("media", u.kind, 0, 0,
                                               NamesOf(groups.val), TRUE, Message))
                 IN  IF Len(groups.val) = 0
                     THEN SendToNoGroup(called)
                     ELSE [called EXCEPT !.pc = "sending",
                                         !.send = Some(SendRecord("media", u.kind, groups.val))]
    IN  Only({To(groups) : groups \in {getGroupsToAlert(u.event)}})

Settled(send) ==
    \A i \in 1..Len(send.deliveries) : send.deliveries[i].status \in {"ok", "failed"}

AllAccepted(send) ==
    \A i \in 1..Len(send.deliveries) : send.deliveries[i].status = "ok"

\* a send() that would be content with one group having the media
AfterDeliverySomeAccepted(u) ==
    LET send == u.send[1]
    IN  IF ~Settled(send) THEN u
        ELSE IF send.type = "text" THEN [u EXCEPT !.pc = "done"]
        ELSE IF \E g \in 1..Len(send.deliveries) : send.deliveries[g].status = "ok"
        THEN [u EXCEPT !.pc = "done"]
        ELSE AfterKind(u)

\* Promise.all resolves with the last delivery: results.every(Boolean) decides
\* between return and the next downloader; after the text alert send() returns
AfterDelivery(u) ==
    LET send == u.send[1]
    IN  IF ~Settled(send) THEN u
        ELSE IF send.type = "text" THEN [u EXCEPT !.pc = "done"]
        ELSE IF AllAccepted(send) THEN [u EXCEPT !.pc = "done"]
        ELSE AfterKind(u)

\* accepted remembers which groups received a media attachment (history)
SetDelivery(u, g, status, attempt) ==
    [u EXCEPT !.send[1].deliveries[g].status = status,
              !.send[1].deliveries[g].attempt = attempt,
              !.accepted = IF status = "ok" /\ u.send[1].type = "media"
                           THEN @ \cup {u.send[1].deliveries[g].name} ELSE @]

\* a triggerWebhook whose failed post would reject the unit
WebhookAnsweredUncaught(i, ok) ==
    /\ units[i].hook = "posting"
    /\ units' = [units EXCEPT ![i].hook = IF ok THEN "ok" ELSE "failed",
                              ![i].pc = IF ok THEN @ ELSE "rejected"]
    /\ UNCHANGED <<config, now, feed, lastEvent, lastTimestamp, ticks, cycles, outcomes,
                 skipped, resolved>>

\* the webhook post is answered or fails: triggerWebhook logs either outcome
WebhookAnswered(i, ok) ==
    /\ units[i].hook = "posting"
    /\ units' = [units EXCEPT ![i].hook = IF ok THEN "ok" ELSE "failed"]
    /\ UNCHANGED <<config, now, feed, lastEvent, lastTimestamp, ticks, cycles, outcomes,
                 skipped, resolved>>

\* the 7 s timer of processEvent: end_time is assumed, then send() is called;
\* assumed remembers the seconds put on start_time (history)
PreWaitOver(i) ==
    /\ units[i].pc = "prewait"
    /\ LET event == [units[i].event EXCEPT !.end_time = Some(units[i].event.start_time + 5)]
       IN  units' = [units EXCEPT ![i] =
                        StartDownload([units[i] EXCEPT !.event = event,
                                                       !.assumed = Some(5)], 1)]
    /\ UNCHANGED <<config, now, feed, lastEvent, lastTimestamp, ticks, cycles, outcomes,
                 skipped, resolved>>

\* an end_time that would be written to every unit holding an event of the
\* same camera and start_time, as if they held one event object
ClipWaitOverShared(i) ==
    /\ units[i].pc = "clipwait"
    /\ units' = [j \in 1..Len(units) |->
                    IF j = i
                    THEN [units[j] EXCEPT !.event.end_time = Some(units[i].event.start_time + 17),
                                          !.assumed = Some(17),
                                          !.pc = "download"]
                    ELSE IF /\ units[j].event.camera = units[i].event.camera
                            /\ units[j].event.start_time = units[i].event.start_time
                    THEN [units[j] EXCEPT !.event.end_time = Some(units[i].event.start_time + 17)]
                    ELSE units[j]]
    /\ UNCHANGED <<config, now, feed, lastEvent, lastTimestamp, ticks, cycles, outcomes,
                 skipped, resolved>>

\* the 20 s timer of downloadVideo: end_time is assumed, then the clip is requested
ClipWaitOver(i) ==
    /\ units[i].pc = "clipwait"
    /\ units' = [units EXCEPT ![i].event.end_time = Some(units[i].event.start_time + 17),
                              ![i].assumed = Some(17),
                              ![i].pc = "download"]
    /\ UNCHANGED <<config, now, feed, lastEvent, lastTimestamp, ticks, cycles, outcomes,
                 skipped, resolved>>

\* a delay that would count the attempt to come
RetryDelayNext(attempt) == MEDIA_RETRY_DELAY * (attempt + 1)

\* the delay downloadWithRetry waits after a failed attempt
RetryDelay(attempt) == MEDIA_RETRY_DELAY * attempt

\* the catch block of downloadWithRetry: wait and go round again while attempts
\* are left; after the last one the error is thrown into the catch of send()
AttemptFailed(u) ==
    IF u.attempt < MEDIA_RETRY_ATTEMPTS
    THEN [Logged(u, Entry("wait", u.kind, u.attempt, RetryDelay(u.attempt), <<>>, TRUE, <<>>))
             EXCEPT !.pc = "backoff"]
    ELSE AfterKind(u)

\* one attempt is over; body is what the request answered with, if it did
Fetched(u, body, ok) ==
    [Logged(u, Entry("fetch", u.kind, u.attempt, 0, <<>>, ok, <<>>)) EXCEPT !.body = body]

\* a size check that would turn down a body of exactly MIN_BUFFER_SIZE
DownloadAnsweredStrict(i, size) ==
    /\ units[i].pc = "download"
    /\ LET u == units[i] IN
        IF size > MIN_BUFFER_SIZE
        THEN units' = [units EXCEPT ![i] = StartMedia(Fetched(u, Some(size), TRUE))]
        ELSE units' = [units EXCEPT ![i] = AttemptFailed(Fetched(u, Some(size), FALSE))]
    /\ UNCHANGED <<config, now, feed, lastEvent, lastTimestamp, ticks, cycles, outcomes,
                 skipped, resolved>>

\* the media request answers with a body of the given size: downloadWithRetry
\* returns it, or counts a body under MIN_BUFFER_SIZE as a failed attempt
DownloadAnswered(i, size) ==
    /\ units[i].pc = "download"
    /\ LET u == units[i] IN
        IF size >= MIN_BUFFER_SIZE
        THEN units' = [units EXCEPT ![i] = StartMedia(Fetched(u, Some(size), TRUE))]
        ELSE units' = [units EXCEPT ![i] = AttemptFailed(Fetched(u, Some(size), FALSE))]
    /\ UNCHANGED <<config, now, feed, lastEvent, lastTimestamp, ticks, cycles, outcomes,
                 skipped, resolved>>

\* a failure that would go to the next downloader at once
DownloadFailedAdvances(i) ==
    /\ units[i].pc = "download"
    /\ units' = [units EXCEPT ![i] = AfterKind(Fetched(units[i], Absent, FALSE))]
    /\ UNCHANGED <<config, now, feed, lastEvent, lastTimestamp, ticks, cycles, outcomes,
                 skipped, resolved>>

\* the media request fails (network error, non-2xx)
DownloadFailed(i) ==
    /\ units[i].pc = "download"
    /\ units' = [units EXCEPT ![i] = AttemptFailed(Fetched(units[i], Absent, FALSE))]
    /\ UNCHANGED <<config, now, feed, lastEvent, lastTimestamp, ticks, cycles, outcomes,
                 skipped, resolved>>

\* the retry delay of downloadWithRetry is over: the next attempt is made
BackoffOver(i) ==
    /\ units[i].pc = "backoff"
    /\ units' = [units EXCEPT ![i].attempt = @ + 1,
                              ![i].pc = FirstStepOf(units[i].kind, units[i].event)]
    /\ UNCHANGED <<config, now, feed, lastEvent, lastTimestamp, ticks, cycles, outcomes,
                 skipped, resolved>>

\* the recipients of the unit's latest send
NumDeliveries(i) ==
    IF units[i].send = Absent THEN 0 ELSE Len(units[i].send[1].deliveries)

CurrentDelivery(i, g) == units[i].send[1].deliveries[g]

\* a send() that would go on to the next downloader after every group
\* accepted the media
DeliveryAcceptedGoesOn(i, g) ==
    /\ units[i].pc \in {"sending", "texting"}
    /\ g \in 1..NumDeliveries(i)
    /\ CurrentDelivery(i, g).status = "posting"
    /\ LET u == SetDelivery(units[i], g, "ok", 0) IN
        IF Settled(u.send[1]) /\ u.send[1].type = "media"
        THEN units' = [units EXCEPT ![i] = AfterKind(u)]
        ELSE units' = [units EXCEPT ![i] = AfterDelivery(u)]
    /\ UNCHANGED <<config, now, feed, lastEvent, lastTimestamp, ticks, cycles, outcomes,
                 skipped, resolved>>

\* sendDocument or sendMessage to one chat succeeds
DeliveryAccepted(i, g) ==
    /\ units[i].pc \in {"sending", "texting"}
    /\ g \in 1..NumDeliveries(i)
    /\ CurrentDelivery(i, g).status = "posting"
    /\ units' = [units EXCEPT ![i] =
                    AfterDelivery(SetDelivery(units[i], g, "ok", 0))]
    /\ UNCHANGED <<config, now, feed, lastEvent, lastTimestamp, ticks, cycles, outcomes,
                 skipped, resolved>>

\* a Promise.all that would settle with the first delivery that fails
DeliveryRejectedFailsFast(i, g) ==
    /\ units[i].pc \in {"sending", "texting"}
    /\ g \in 1..NumDeliveries(i)
    /\ CurrentDelivery(i, g).status = "posting"
    /\ LET d == CurrentDelivery(i, g) IN
        IF units[i].pc = "sending" /\ d.attempt < MEDIA_RETRY_ATTEMPTS
        THEN units' = [units EXCEPT ![i] =
                          SetDelivery(units[i], g, "waiting", d.attempt)]
        ELSE IF units[i].pc = "sending"
        THEN units' = [units EXCEPT ![i] =
                          AfterKind(SetDelivery(units[i], g, "failed", 0))]
        ELSE units' = [units EXCEPT ![i] =
                          AfterDelivery(SetDelivery(units[i], g, "failed", 0))]
    /\ UNCHANGED <<config, now, feed, lastEvent, lastTimestamp, ticks, cycles, outcomes,
                 skipped, resolved>>

\* sendDocument to one chat fails: sendMediaToTelegram retries after a delay
\* until its attempts are used up; sendMessage fails: sendToTelegram logs it
DeliveryRejected(i, g) ==
    /\ units[i].pc \in {"sending", "texting"}
    /\ g \in 1..NumDeliveries(i)
    /\ CurrentDelivery(i, g).status = "posting"
    /\ LET d == CurrentDelivery(i, g) IN
        IF units[i].pc = "sending" /\ d.attempt < MEDIA_RETRY_ATTEMPTS
        THEN units' = [units EXCEPT ![i] =
                          SetDelivery(units[i], g, "waiting", d.attempt)]
        ELSE units' = [units EXCEPT ![i] =
                          AfterDelivery(SetDelivery(units[i], g, "failed", 0))]
    /\ UNCHANGED <<config, now, feed, lastEvent, lastTimestamp, ticks, cycles, outcomes,
                 skipped, resolved>>

\* a sendMediaToTelegram that would not count its attempts
DeliveryRetriedUncounted(i, g) ==
    /\ units[i].pc = "sending"
    /\ g \in 1..NumDeliveries(i)
    /\ CurrentDelivery(i, g).status = "waiting"
    /\ units' = [units EXCEPT ![i] =
                    SetDelivery(units[i], g, "posting", 1)]
    /\ UNCHANGED <<config, now, feed, lastEvent, lastTimestamp, ticks, cycles, outcomes,
                 skipped, resolved>>

\* the retry delay of sendMediaToTelegram is over: the document is posted again
DeliveryRetried(i, g) ==
    /\ units[i].pc = "sending"
    /\ g \in 1..NumDeliveries(i)
    /\ CurrentDelivery(i, g).status = "waiting"
    /\ units' = [units EXCEPT ![i] =
                    SetDelivery(units[i], g, "posting", CurrentDelivery(i, g).attempt + 1)]
    /\ UNCHANGED <<config, now, feed, lastEvent, lastTimestamp, ticks, cycles, outcomes,
                 skipped, resolved>>

\* a hand-over that would store the fallback schedule in a configuration
\* that has no default_schedule
HandOffFillingDefault(shape) ==
    /\ units = <<>>
    /\ LET start_time == now - shape.age
           end_time == IF shape.ended THEN Some(start_time + 30) ELSE Absent
       IN  \E event \in {Event(Len(units) + 1, shape.camera, shape.label, start_time,
                                end_time, shape.has_clip)} :
               /\ isLabelAllowed(event)
               /\ shouldAlertAnyGroup(event) = [threw |-> FALSE, val |-> TRUE]
               /\ units' = Append(units, processEvent(event))
    /\ config' = [config EXCEPT !.default_schedule = Some(defaultSchedule)]
    /\ UNCHANGED <<now, feed, lastEvent, lastTimestamp, ticks, cycles, outcomes,
                 skipped, resolved>>

\* the scan of a poll cycle reaches an event that passes its three filters and
\* calls processEvent; units share no state with one another, so one unit is
\* followed from hand-over to its end
HandOff(shape) ==
    /\ units = <<>>
    /\ LET start_time == now - shape.age
           end_time == IF shape.ended THEN Some(start_time + 30) ELSE Absent
       IN  \E event \in {Event(Len(units) + 1, shape.camera, shape.label, start_time,
                                end_time, shape.has_clip)} :
               /\ isLabelAllowed(event)
               /\ shouldAlertAnyGroup(event) = [threw |-> FALSE, val |-> TRUE]
               /\ units' = Append(units, processEvent(event))
    /\ UNCHANGED <<config, now, feed, lastEvent, lastTimestamp, ticks, cycles, outcomes,
                 skipped, resolved>>

\* processEvent is called, not awaited, for a further event while earlier
\* units are still running
HandOffBeside(shape) ==
    /\ units # <<>>
    /\ Len(units) < MaxUnits
    /\ LET start_time == now - shape.age
           end_time == IF shape.ended THEN Some(start_time + 30) ELSE Absent
       IN  \E event \in {Event(Len(units) + 1, shape.camera, shape.label, start_time,
                                end_time, shape.has_clip)} :
               /\ isLabelAllowed(event)
               /\ shouldAlertAnyGroup(event) = [threw |-> FALSE, val |-> TRUE]
               /\ units' = Append(units, processEvent(event))
    /\ UNCHANGED <<config, now, feed, lastEvent, lastTimestamp, ticks, cycles, outcomes,
                 skipped, resolved>>

\* time passes
Advance ==
    /\ now < StartOfRun + MaxClock * ClockStep
    /\ now' = now + ClockStep
    /\ UNCHANGED <<config, feed, lastEvent, lastTimestamp, ticks, cycles, outcomes, skipped,
                 units, resolved>>

-----------------------------------------------------------------------------

Init ==
    /\ config \in Configs
    /\ now = StartOfRun
    /\ feed = <<>>
    /\ lastEvent = Absent
    /\ lastTimestamp = 0
    /\ ticks = 0
    /\ cycles = {}
    /\ outcomes = <<>>
    /\ skipped = {}
    /\ units = <<>>
    /\ resolved = Absent

Next ==
    \/ Tick
    \/ \E c \in cycles : FetchFail(c)
    \/ \E c \in cycles : FetchOk(c)
    \/ \E c \in cycles : GraceOver(c)
    \/ \E shape \in Shapes : NewEvent(shape)

Spec == Init /\ [][Next]_vars

\* An event-processing unit shares no variable with the poll loop, so the units
\* are explored on their own, handed events directly.
NextDispatch ==
    \/ \E shape \in DispatchShapes : HandOff(shape)
    \/ Advance
    \/ \E i \in 1..Len(units), ok \in BOOLEAN : WebhookAnswered(i, ok)
    \/ \E i \in 1..Len(units) : PreWaitOver(i)
    \/ \E i \in 1..Len(units) : ClipWaitOver(i)
    \/ \E i \in 1..Len(units), size \in BodySizes : DownloadAnswered(i, size)
    \/ \E i \in 1..Len(units) : DownloadFailed(i)
    \/ \E i \in 1..Len(units) : BackoffOver(i)
    \/ \E i \in 1..Len(units) : \E g \in 1..NumDeliveries(i) : DeliveryAccepted(i, g)
    \/ \E i \in 1..Len(units) : \E g \in 1..NumDeliveries(i) : DeliveryRejected(i, g)
    \/ \E i \in 1..Len(units) : \E g \in 1..NumDeliveries(i) : DeliveryRetried(i, g)

SpecDispatch == Init /\ [][NextDispatch]_vars

\* a timer of unit i fires, or a request it awaits is answered or fails
StepOf(i) ==
    \/ PreWaitOver(i)
    \/ ClipWaitOver(i)
    \/ \E size \in BodySizes : DownloadAnswered(i, size)
    \/ DownloadFailed(i)
    \/ BackoffOver(i)
    \/ \E g \in 1..NumDeliveries(i) : DeliveryAccepted(i, g)
    \/ \E g \in 1..NumDeliveries(i) : DeliveryRejected(i, g)
    \/ \E g \in 1..NumDeliveries(i) : DeliveryRetried(i, g)

UnitStep == \E i \in 1..Len(units) : StepOf(i)

\* Timers fire and every request is answered or fails in the end: a unit that
\* can take a step does not wait forever.
SpecDispatchFair == SpecDispatch /\ WF_vars(UnitStep)

\* The poll loop under a configuration whose window opens during the run.
InitLateWindow ==
    /\ config = ConfigLateWindow
    /\ now = StartOfRun
    /\ feed = <<>>
    /\ lastEvent = Absent
    /\ lastTimestamp = 0
    /\ ticks = 0
    /\ cycles = {}
    /\ outcomes = <<>>
    /\ skipped = {}
    /\ units = <<>>
    /\ resolved = Absent

SpecLateWindow == InitLateWindow /\ [][Next]_vars

\* One unit under a configuration whose window closes during the run.
InitClosingWindow ==
    /\ config = ConfigClosingWindow
    /\ now = StartOfRun
    /\ feed = <<>>
    /\ lastEvent = Absent
    /\ lastTimestamp = 0
    /\ ticks = 0
    /\ cycles = {}
    /\ outcomes = <<>>
    /\ skipped = {}
    /\ units = <<>>
    /\ resolved = Absent

SpecClosingWindow == InitClosingWindow /\ [][NextDispatch]_vars

\* Units side by side: every unit takes its steps in any order with the others;
\* no webhook is configured.
InitPair ==
    /\ config = ConfigSingleGroup
    /\ now = StartOfRun
    /\ feed = <<>>
    /\ lastEvent = Absent
    /\ lastTimestamp = 0
    /\ ticks = 0
    /\ cycles = {}
    /\ outcomes = <<>>
    /\ skipped = {}
    /\ units = <<>>
    /\ resolved = Absent

NextPair ==
    \/ \E shape \in PairShapes : HandOff(shape)
    \/ \E shape \in PairShapes : HandOffBeside(shape)
    \/ \E i \in 1..Len(units) : PreWaitOver(i)
    \/ \E i \in 1..Len(units) : ClipWaitOver(i)
    \/ \E i \in 1..Len(units), size \in BodySizes : DownloadAnswered(i, size)
    \/ \E i \in 1..Len(units) : DownloadFailed(i)
    \/ \E i \in 1..Len(units) : BackoffOver(i)
    \/ \E i \in 1..Len(units) : \E g \in 1..NumDeliveries(i) : DeliveryAccepted(i, g)
    \/ \E i \in 1..Len(units) : \E g \in 1..NumDeliveries(i) : DeliveryRejected(i, g)
    \/ \E i \in 1..Len(units) : \E g \in 1..NumDeliveries(i) : DeliveryRetried(i, g)

SpecPair == InitPair /\ [][NextPair]_vars

-----------------------------------------------------------------------------
(* config.js on its own: shouldAlertGroup asked of layered configurations *)

\* the schedule objects a layer may carry: none, one field only, or both
Schedules(s, e) == {Absent, Window(s, <<>>), Window(<<>>, e), Window(s, e)}

Flags == {"undefined", "true", "false"}

Layers(s, e) == {[schedule |-> w, always_send |-> a] : w \in Schedules(s, e), a \in Flags}

CameraGroupLayers == Layers(HM("2", "0", "0", "0"), HM("0", "5", "0", "0"))

CameraLayers == Layers(HM("2", "1", "0", "0"), HM("0", "7", "0", "0"))

GroupLayers == Layers(HM("2", "2", "0", "0"), HM("0", "6", "0", "0"))

\* default_schedule: not given, complete, or with some of its fields only
DefaultLayers ==
    {Absent,
     Some([start_time |-> HM("0", "8", "0", "0"), end_time |-> HM("1", "8", "0", "0"),
           always_send |-> "false"]),
     Some([start_time |-> HM("0", "8", "0", "0"), end_time |-> <<>>,
           always_send |-> "undefined"]),
     Some([start_time |-> <<>>, end_time |-> <<>>, always_send |-> "true"])}

\* camera "cam" with an override for group "sec"; any other camera or group
\* has no entry
LayeredConfig(cameraGroup, camera, group, default) ==
    [groups |-> <<GroupEntry("sec", "chat-sec", "undefined", group.schedule,
                             group.always_send)>>,
     cameras |-> [c \in {"cam"} |->
        CameraEntry(camera.schedule, camera.always_send, Absent, Absent,
                    [g \in {"sec"} |-> cameraGroup])],
     default_schedule |-> default,
     default_groups |-> Absent,
     poll_interval_seconds |-> 0,
     media_retry_attempts |-> 0,
     media_retry_delay_seconds |-> 0,
     webhook_url |-> ""]

LayeredConfigs ==
    {LayeredConfig(cameraGroup, camera, group, default) :
        cameraGroup \in CameraGroupLayers, camera \in CameraLayers,
        group \in GroupLayers, default \in DefaultLayers}

\* the times of day the question is asked at
TimesOfDay ==
    {6 * 3600 + 30, 6 * 3600 + 60, 12 * 3600, 22 * 3600 - 1, 22 * 3600, 23 * 3600}

CameraNames == {"cam", "street"}

GroupNames == {"sec", "night"}

InitSchedule ==
    /\ config \in LayeredConfigs
    /\ now \in TimesOfDay
    /\ feed = <<>>
    /\ lastEvent = Absent
    /\ lastTimestamp = 0
    /\ ticks = 0
    /\ cycles = {}
    /\ outcomes = <<>>
    /\ skipped = {}
    /\ units = <<>>
    /\ resolved = Absent

\* shouldAlertGroup(cameraName, groupName) is called: the schedule it resolves
\* and what it returns, or that it threw
AskGroup(cameraName, groupName) ==
    /\ \E schedule \in {getScheduleForCameraAndGroup(cameraName, groupName)} :
       \E alert \in {shouldAlertGroup(cameraName, groupName)} :
           resolved' = Some([cameraName |-> cameraName, groupName |-> groupName,
                             schedule |-> schedule, alert |-> alert])
    /\ UNCHANGED <<config, now, feed, lastEvent, lastTimestamp, ticks, cycles, outcomes,
                 skipped, units>>

NextSchedule ==
    \E cameraName \in CameraNames, groupName \in GroupNames : AskGroup(cameraName, groupName)

SpecSchedule == InitSchedule /\ [][NextSchedule]_vars

-----------------------------------------------------------------------------
(* Properties of the poll loop, stated on the step that scans *)

\* the cycle whose scan and watermark rewrite make up this step
Scanning == {c \in cycles : c.pc = "grace" /\ c \notin cycles'}

\* the events this step hands to processEvent, in call order
Handed == [k \in 1..(Len(units') - Len(units)) |-> units'[Len(units) + k].event]

HandedIds == {Handed[k].id : k \in 1..Len(Handed)}

UnitIds == {units[i].event.id : i \in 1..Len(units)}

\* where an event id sits in a fetched list; past the end when it is not there
IndexOf(events, id) ==
    IF \E p \in 1..Len(events) : events[p].id = id
    THEN CHOOSE p \in 1..Len(events) : events[p].id = id
    ELSE Len(events) + 1

\* the positions of a fetched list that lie before the watermark's event
BeforeWatermark(events) ==
    IF IsSet(lastEvent) THEN 1..(IndexOf(events, lastEvent[1]) - 1) ELSE {}

LabelListed(event) ==
    \/ event.camera \notin DOMAIN config.cameras
    \/ ~IsSet(config.cameras[event.camera].labels)
    \/ \E i \in 1..Len(config.cameras[event.camera].labels[1]) :
          config.cameras[event.camera].labels[1][i] = event.label

SomeGroupAlerts(event) == shouldAlertAnyGroup(event) = [threw |-> FALSE, val |-> TRUE]

NoGroupAlerts(event) == shouldAlertAnyGroup(event) = [threw |-> FALSE, val |-> FALSE]

\* the scan of cycle c ran to its end and the watermark was rewritten
Completed(c) == outcomes'[c.n] = "scanned"

NumberOfScans == Cardinality({n \in 1..Len(outcomes) : outcomes[n] \in {"scanned", "threw"}})

\* C1: with lastEventId set, a scan hands over only events that stand strictly
\* before the watermark's event in the fetched list, and in feed order; the
\* watermark's event and everything after it is left alone.
ScanStopsAtWatermark ==
    [][\A c \in Scanning :
          IsSet(lastEvent) =>
              /\ \A k \in 1..Len(Handed) :
                    /\ IndexOf(c.events, Handed[k].id) \in BeforeWatermark(c.events)
                    /\ c.events[IndexOf(c.events, Handed[k].id)] = Handed[k]
              /\ \A k \in 2..Len(Handed) :
                    IndexOf(c.events, Handed[k - 1].id) < IndexOf(c.events, Handed[k].id)
              /\ \A s \in skipped' \ skipped :
                    IndexOf(c.events, s.id) \in BeforeWatermark(c.events)]_vars

\* the newest event was handed over while an older one of the same camera and
\* label, recent enough for the cutoff, stayed untouched behind the watermark
StoppedAtWatermark ==
    \E p \in 1..Len(feed) : \E q \in (p + 1)..Len(feed) :
        /\ feed[p].id \in UnitIds
        /\ feed[q].id \notin UnitIds
        /\ \A s \in skipped : s.id # feed[q].id
        /\ feed[q].camera = feed[p].camera
        /\ feed[q].label = feed[p].label
        /\ feed[q].start_time >= lastTimestamp
        /\ NumberOfScans = 2

\* C2: a scan made while lastEventId is unset hands over nothing and only sets
\* the watermark.
FirstCycleDispatchesNothing ==
    [][\A c \in Scanning :
          ~IsSet(lastEvent) =>
              /\ units' = units
              /\ skipped' = skipped
              /\ lastEvent' = Some(c.events[1].id)]_vars

\* one scan was made, of a list headed by an event that passes every filter,
\* and no unit exists
FirstScanDispatchedNothing ==
    /\ NumberOfScans = 1
    /\ ticks = 1
    /\ Len(feed) > 0
    /\ lastEvent = Some(feed[1].id)
    /\ LabelListed(feed[1])
    /\ SomeGroupAlerts(feed[1])
    /\ feed[1].start_time >= lastTimestamp
    /\ units = <<>>

\* C3: no event id is handed to processEvent more than once.
NoEventHandedTwice ==
    \A i, j \in 1..Len(units) : units[i].event.id = units[j].event.id => i = j

\* C4: at most one poll cycle is between its fetch and its watermark rewrite.
CyclesNeverOverlap == Cardinality(cycles) <= 1

\* C5: a cycle whose fetch fails ends with lastEventId and the cutoff unchanged
\* and with no event handed over.
FetchFailureLeavesWatermark ==
    [][\A c \in cycles :
          (c.pc = "fetch" /\ c \notin cycles' /\ outcomes'[c.n] = "failed") =>
              /\ lastEvent' = lastEvent
              /\ lastTimestamp' = lastTimestamp
              /\ units' = units]_vars

\* after a failed cycle, with the watermark still set, a later cycle scanned and
\* handed an event over
FailedThenScanned ==
    \E n \in 1..Len(outcomes) : \E m \in (n + 1)..Len(outcomes) :
        /\ outcomes[n] = "failed"
        /\ outcomes[m] = "scanned"
        /\ \A k \in 1..(n - 1) : outcomes[k] = "scanned"
        /\ n > 1
        /\ units # <<>>

\* C6: every scan ends with lastEventId set to the id of the first event of the
\* fetched list and the cutoff set to the current time minus 10 minutes.
EveryScanRewritesWatermark ==
    [][\A c \in Scanning :
          /\ lastEvent' = Some(c.events[1].id)
          /\ lastTimestamp' = now - 10 * 60]_vars

\* C7: an event whose label is not in its camera's allow-list is never handed
\* over; the scan passes over it and goes on, so a later event of the list that
\* passes every filter is handed over in the same scan.
LabelDropStartsNoUnit ==
    [][\A c \in Scanning :
          /\ \A k \in 1..Len(Handed) : LabelListed(Handed[k])
          /\ Completed(c) =>
                \A p \in BeforeWatermark(c.events) :
                    ~LabelListed(c.events[p]) =>
                        /\ [id |-> c.events[p].id, why |-> "label"] \in skipped'
                        /\ \A q \in BeforeWatermark(c.events) :
                              (/\ q > p
                               /\ LabelListed(c.events[q])
                               /\ SomeGroupAlerts(c.events[q])
                               /\ c.events[q].start_time >= lastTimestamp)
                              => c.events[q].id \in HandedIds]_vars

\* the one scan made with the watermark set passed over an event for its label
\* and handed over an older event of the same list
LabelDroppedScanWentOn ==
    /\ NumberOfScans = 2
    /\ \E s \in skipped :
          /\ s.why = "label"
          /\ s.id \notin UnitIds
          /\ \E i \in 1..Len(units) : units[i].event.id < s.id

\* C8: an event for which no group satisfies shouldAlertGroup when it is scanned
\* is never handed over, so no unit, and with it no webhook, media request or
\* delivery, is started for it.
ScheduleDropStartsNoUnit ==
    [][\A c \in Scanning :
          /\ \A k \in 1..Len(Handed) : SomeGroupAlerts(Handed[k])
          /\ Completed(c) =>
                \A p \in BeforeWatermark(c.events) :
                    (LabelListed(c.events[p]) /\ NoGroupAlerts(c.events[p])) =>
                        /\ [id |-> c.events[p].id, why |-> "schedule"] \in skipped'
                        /\ c.events[p].id \notin HandedIds]_vars

\* an event was passed over because no group wanted it, and has no unit
ScheduleDropped ==
    \E s \in skipped :
        /\ s.why = "schedule"
        /\ s.id \notin UnitIds
        /\ \E p \in 1..Len(feed) : feed[p].id = s.id /\ LabelListed(feed[p])

\* C9: an event whose start_time is below the cutoff at scan time is never
\* handed over in that scan; one whose start_time is at or above the cutoff,
\* and which passes the label and schedule checks, is handed over.
CutoffDropsOnlyOlder ==
    [][\A c \in Scanning :
          /\ \A k \in 1..Len(Handed) : Handed[k].start_time >= lastTimestamp
          /\ Completed(c) =>
                \A p \in BeforeWatermark(c.events) :
                    (LabelListed(c.events[p]) /\ SomeGroupAlerts(c.events[p])) =>
                        IF c.events[p].start_time < lastTimestamp
                        THEN [id |-> c.events[p].id, why |-> "cutoff"] \in skipped'
                        ELSE c.events[p].id \in HandedIds]_vars

\* an event older than the cutoff was passed over, and in the same scan (the
\* only one made with the watermark set) an event was handed over whose
\* start_time was exactly the cutoff in force
CutoffDroppedAndKept ==
    /\ NumberOfScans = 2
    /\ outcomes = <<"scanned", "failed", "scanned">>
    /\ \E s \in skipped : s.why = "cutoff" /\ s.id \notin UnitIds
    /\ \E i \in 1..Len(units) :
          units[i].event.start_time = StartOfRun + POLL_INTERVAL - 10 * 60

-----------------------------------------------------------------------------
(* Properties of the deliveries *)

\* isWithinSchedule at the time t of a send
InWindowAt(schedule, t) ==
    /\ schedule.start_time # <<>>
    /\ schedule.end_time # <<>>
    /\ LET InWindow(minutes, startMinutes, endMinutes) ==
               IF Leq(startMinutes, endMinutes)
               THEN Geq(minutes, startMinutes) /\ Leq(minutes, endMinutes)
               ELSE Geq(minutes, startMinutes) \/ Leq(minutes, endMinutes)
       IN  InWindow((t \div 60) % (24 * 60),
                    MinutesOf(Split(schedule.start_time, ":")),
                    MinutesOf(Split(schedule.end_time, ":")))

EligibleAt(cameraName, delivery, t) ==
    /\ \E i \in 1..Len(config.groups) :
          /\ config.groups[i].name = delivery.name
          /\ config.groups[i].chat_id # ""
          /\ config.groups[i].chat_id = delivery.chat_id
          /\ config.groups[i].enabled # "false"
    /\ \E schedule \in {getScheduleForCameraAndGroup(cameraName, delivery.name)} :
          schedule.always_send = "true" \/ InWindowAt(schedule, t)

\* C10: every media or text delivery goes to a group that, when the recipients
\* of that send were resolved, had a chat id, was not disabled, and whose
\* resolved schedule had always_send set or contained that time.
DeliveriesGoToEligibleGroups ==
    \A i \in 1..Len(units) :
        IsSet(units[i].send) =>
            \A g \in 1..Len(units[i].send[1].deliveries) :
                EligibleAt(units[i].event.camera, units[i].send[1].deliveries[g],
                           units[i].send[1].at)

\* a document went to a group whose window has closed since the recipients
\* were resolved, on a camera that also lists a disabled group set to always send
DeliveredWhileEligible ==
    \E i \in 1..Len(units) :
        /\ IsSet(units[i].send)
        /\ units[i].send[1].at < now
        /\ "off" \in {getGroupNamesForCamera(units[i].event.camera)[k] :
                         k \in 1..Len(getGroupNamesForCamera(units[i].event.camera))}
        /\ \E g \in 1..Len(units[i].send[1].deliveries) :
              /\ units[i].send[1].deliveries[g].status = "ok"
              /\ ~EligibleAt(units[i].event.camera, units[i].send[1].deliveries[g], now)

-----------------------------------------------------------------------------
(* Properties of the media cascade of one unit *)

IsFetch(entry) == entry.op = "fetch"

\* the download attempts of a unit, in order
FetchesOf(u) == SelectSeq(u.log, IsFetch)

Fetching == {"clipwait", "download", "backoff"}

\* C15: the download attempts of a unit start with the clip, go from one kind
\* to the next only, never back, and leave a kind whose attempt failed only
\* when that attempt was the last of MEDIA_RETRY_ATTEMPTS.
CascadeInOrder ==
    \A i \in 1..Len(units) :
        LET f == FetchesOf(units[i]) IN
        /\ f # <<>> => f[1].kind = 1 /\ f[1].attempt = 1
        /\ \A j \in 1..Len(f) : f[j].kind \in 1..Len(Downloaders)
        /\ \A j \in 1..(Len(f) - 1) :
              IF f[j + 1].kind = f[j].kind
              THEN ~f[j].ok /\ f[j + 1].attempt = f[j].attempt + 1
              ELSE /\ f[j + 1].kind = f[j].kind + 1
                   /\ f[j + 1].attempt = 1
                   /\ ~f[j].ok => f[j].attempt = MEDIA_RETRY_ATTEMPTS
        /\ (f # <<>> /\ ~f[Len(f)].ok /\ f[Len(f)].attempt < MEDIA_RETRY_ATTEMPTS) =>
              /\ units[i].kind = f[Len(f)].kind
              /\ units[i].pc \in Fetching

\* every attempt at the clip and at the snapshot failed, and the thumbnail is
\* being tried
AllKindsTriedInTurn ==
    \E i \in 1..Len(units) :
        LET f == FetchesOf(units[i]) IN
        /\ MEDIA_RETRY_ATTEMPTS > 1
        /\ Len(f) = 2 * MEDIA_RETRY_ATTEMPTS + 1
        /\ \A j \in 1..(2 * MEDIA_RETRY_ATTEMPTS) : ~f[j].ok
        /\ f[MEDIA_RETRY_ATTEMPTS].kind = 1
        /\ f[2 * MEDIA_RETRY_ATTEMPTS].kind = 2
        /\ f[Len(f)].kind = 3

\* C16, as stated: before attempt k of a download, MEDIA_RETRY_DELAY * k is
\* waited.
DelayBeforeAttemptIsItsMultiple ==
    \A i \in 1..Len(units) :
        \A p \in 1..Len(units[i].log) :
            (units[i].log[p].op = "fetch" /\ units[i].log[p].attempt > 1) =>
                /\ units[i].log[p - 1].op = "wait"
                /\ units[i].log[p - 1].delay = MEDIA_RETRY_DELAY * units[i].log[p].attempt

\* C16, amended: a download is attempted at most MEDIA_RETRY_ATTEMPTS times and
\* not again once an attempt succeeded; nothing is waited before attempt 1, and
\* between failed attempt k and attempt k + 1 the wait is MEDIA_RETRY_DELAY * k.
BackoffIsLinear ==
    \A i \in 1..Len(units) :
        LET log == units[i].log IN
        \A p \in 1..Len(log) :
            /\ log[p].op = "fetch" =>
                  /\ log[p].attempt \in 1..MEDIA_RETRY_ATTEMPTS
                  /\ log[p].ok =>
                        \A q \in (p + 1)..Len(log) :
                            ~(log[q].op \in {"fetch", "wait"} /\ log[q].kind = log[p].kind)
                  /\ IF log[p].attempt = 1
                     THEN p > 1 => log[p - 1].op # "wait"
                     ELSE /\ log[p - 1].op = "wait"
                          /\ log[p - 1].kind = log[p].kind
                          /\ log[p - 1].attempt = log[p].attempt - 1
            /\ log[p].op = "wait" =>
                  /\ p > 1
                  /\ log[p - 1].op = "fetch"
                  /\ ~log[p - 1].ok
                  /\ log[p - 1].kind = log[p].kind
                  /\ log[p - 1].attempt = log[p].attempt
                  /\ log[p].attempt < MEDIA_RETRY_ATTEMPTS
                  /\ log[p].delay = MEDIA_RETRY_DELAY * log[p].attempt

\* with four attempts allowed the clip failed twice, the waits were once and
\* twice the delay, and the third attempt succeeded and was the last
ThirdAttemptAfterTwoWaits ==
    \E i \in 1..Len(units) :
        LET log == units[i].log IN
        /\ MEDIA_RETRY_ATTEMPTS = 4
        /\ MEDIA_RETRY_DELAY > 0
        /\ Len(log) >= 6
        /\ log[2].op = "wait" /\ log[2].delay = MEDIA_RETRY_DELAY
        /\ log[4].op = "wait" /\ log[4].delay = 2 * MEDIA_RETRY_DELAY
        /\ log[5].op = "fetch" /\ log[5].attempt = 3 /\ log[5].ok
        /\ log[6].op = "media"
        /\ units[i].pc = "done"

\* C17: a body under MIN_BUFFER_SIZE is a failed attempt like any other: while
\* attempts are left the same download waits and is tried again, and after
\* the last attempt the next downloader is up; a body of MIN_BUFFER_SIZE or
\* more ends the download with a buffer, which goes to the groups.
SmallBodyIsFailedAttempt ==
    \A i \in 1..Len(units) :
        LET u == units[i]
            f == FetchesOf(units[i])
        IN  IsSet(u.body) =>
                /\ f # <<>>
                /\ f[Len(f)].ok <=> u.body[1] >= MIN_BUFFER_SIZE
                /\ IF u.body[1] >= MIN_BUFFER_SIZE
                   THEN /\ u.log[Len(u.log)].op \in {"media", "text"}
                        /\ \E p \in 1..Len(u.log) :
                              u.log[p].op = "media" /\ u.log[p].kind = f[Len(f)].kind
                        /\ u.kind = f[Len(f)].kind => u.pc \notin Fetching
                   ELSE IF f[Len(f)].attempt < MEDIA_RETRY_ATTEMPTS
                   THEN /\ u.kind = f[Len(f)].kind
                        /\ u.log[Len(u.log)] =
                               Entry("wait", u.kind, f[Len(f)].attempt,
                                     MEDIA_RETRY_DELAY * f[Len(f)].attempt, <<>>, TRUE, <<>>)
                        /\ \/ u.pc = "backoff" /\ u.attempt = f[Len(f)].attempt
                           \/ u.pc \in {"clipwait", "download"}
                              /\ u.attempt = f[Len(f)].attempt + 1
                   ELSE \/ u.kind = f[Len(f)].kind + 1 /\ u.attempt = 1 /\ u.pc \in Fetching
                        \/ u.log[Len(u.log)].op = "text"

\* the last attempt allowed for the clip got a body one byte short, and the
\* snapshot is being downloaded
SmallBodyUsedUpLastAttempt ==
    \E i \in 1..Len(units) :
        LET f == FetchesOf(units[i]) IN
        /\ units[i].body = Some(MIN_BUFFER_SIZE - 1)
        /\ f # <<>>
        /\ f[Len(f)].kind = 1
        /\ f[Len(f)].attempt = MEDIA_RETRY_ATTEMPTS
        /\ units[i].kind = 2
        /\ units[i].pc = "download"

\* the groups of a camera that are eligible at time t, by name
EligibleNamesAt(cameraName, t) ==
    {config.groups[k].name : k \in
        {k \in 1..Len(config.groups) :
            /\ \E n \in 1..Len(getGroupNamesForCamera(cameraName)) :
                  getGroupNamesForCamera(cameraName)[n] = config.groups[k].name
            /\ EligibleAt(cameraName, [name |-> config.groups[k].name,
                                       chat_id |-> config.groups[k].chat_id], t)}}

DeliveryNames(send) == {send.deliveries[g].name : g \in 1..Len(send.deliveries)}

AcceptedNames(send) ==
    {send.deliveries[g].name : g \in {g \in 1..Len(send.deliveries) :
                                          send.deliveries[g].status = "ok"}}

\* C18: when the deliveries of a media kind have ended and some group did not
\* accept, the unit goes on to download the next kind; a media kind sent after
\* an earlier one goes to every group eligible at that time, also to those
\* that have the earlier kind, and the groups that accepted stay accepted.
PartialAcceptanceMovesOn ==
    \A i \in 1..Len(units) :
        LET u == units[i] IN
        (IsSet(u.send) /\ u.send[1].type = "media") =>
            /\ (Settled(u.send[1]) /\ ~AllAccepted(u.send[1])) =>
                  /\ u.kind > u.send[1].kind
                  /\ u.pc \in Fetching
            /\ (\E p \in 1..Len(u.log) :
                   u.log[p].op = "media" /\ u.log[p].kind < u.send[1].kind) =>
                  DeliveryNames(u.send[1]) = EligibleNamesAt(u.event.camera, u.send[1].at)
            /\ AcceptedNames(u.send[1]) \subseteq u.accepted

\* the clip could not be downloaded, the snapshot was accepted by one group of
\* two, and the thumbnail went to both and was accepted by both
ThumbnailAlsoToGroupWithSnapshot ==
    \E i \in 1..Len(units) :
        LET u == units[i] IN
        /\ IsSet(u.send)
        /\ u.send[1].type = "media"
        /\ u.send[1].kind = 3
        /\ Len(u.send[1].deliveries) = 2
        /\ AllAccepted(u.send[1])
        /\ u.pc = "done"
        /\ \E p \in 1..Len(u.log) :
              /\ u.log[p].op = "media" /\ u.log[p].kind = 2 /\ Len(u.log[p].to) = 2
              /\ \A q \in 1..(p - 1) : u.log[q].op # "media"
              /\ \E q \in 1..(p - 1) : u.log[q].op = "fetch" /\ u.log[q].kind = 2 /\ u.log[q].ok
        /\ \E q \in 1..Len(u.log) :
              /\ u.log[q] = Entry("fetch", 1, MEDIA_RETRY_ATTEMPTS, 0, <<>>, FALSE, <<>>)

IsText(entry) == entry.op = "text"

\* downloadWithRetry for that kind threw
FetchExhausted(u, kind) ==
    \E p \in 1..Len(u.log) :
        u.log[p] = Entry("fetch", kind, MEDIA_RETRY_ATTEMPTS, 0, <<>>, FALSE, <<>>)

\* sendMediaAlertToGroups for that kind returned false
NotAllAccepted(u, kind) ==
    /\ \E p \in 1..Len(u.log) : u.log[p].op = "media" /\ u.log[p].kind = kind
    /\ \/ u.send[1].type # "media"
       \/ u.send[1].kind # kind
       \/ Len(u.send[1].deliveries) = 0
       \/ Settled(u.send[1]) /\ ~AllAccepted(u.send[1])

KindFailed(u, kind) == FetchExhausted(u, kind) \/ NotAllAccepted(u, kind)

\* C19: as soon as all three kinds have failed, and not before,
\* sendTextAlertToGroups is called, once, with the marker in its text; it posts
\* one message to each group eligible then, none twice, and it is the last
\* thing the unit does: no download and no media send follows.
ExhaustionSendsOneText ==
    \A i \in 1..Len(units) :
        LET u == units[i] IN
        /\ (\A kind \in 1..Len(Downloaders) : KindFailed(u, kind)) <=>
               Len(SelectSeq(u.log, IsText)) > 0
        /\ Len(SelectSeq(u.log, IsText)) <= 1
        /\ \A p \in 1..Len(u.log) :
              u.log[p].op = "text" =>
                  /\ p = Len(u.log)
                  /\ \E m \in 1..Len(u.log[p].message) : u.log[p].message[m] = NoMediaMarker
                  /\ u.pc \in {"texting", "done"}
                  /\ u.send[1].type = "text"
                  /\ u.log[p].to = NamesOf(u.send[1].deliveries)
                  /\ DeliveryNames(u.send[1]) = EligibleNamesAt(u.event.camera, u.send[1].at)
                  /\ Cardinality(DeliveryNames(u.send[1])) = Len(u.send[1].deliveries)
                  /\ \A g \in 1..Len(u.send[1].deliveries) :
                        /\ u.send[1].deliveries[g].status \in {"posting", "ok", "failed"}
                        /\ u.send[1].deliveries[g].attempt <= 1
                  /\ u.pc = "done" <=> Settled(u.send[1])

\* no kind could be downloaded; the text went to two groups, one took it and
\* one did not, and the unit has ended
TextSentAfterThreeFailures ==
    \E i \in 1..Len(units) :
        LET u == units[i] IN
        /\ \A kind \in 1..Len(Downloaders) : FetchExhausted(u, kind)
        /\ Len(u.log) > 0
        /\ u.log[Len(u.log)].op = "text"
        /\ Len(u.log[Len(u.log)].to) = 2
        /\ u.send[1].deliveries[1].status = "ok"
        /\ u.send[1].deliveries[2].status = "failed"
        /\ u.pc = "done"

\* C20: the text alert goes to no group that accepted a media attachment of
\* the same event.
TextOnlyToGroupsWithoutMedia ==
    \A i \in 1..Len(units) :
        (IsSet(units[i].send) /\ units[i].send[1].type = "text") =>
            DeliveryNames(units[i].send[1]) \cap units[i].accepted = {}

-----------------------------------------------------------------------------
(* Properties of the schedule resolution *)

\* the fields one layer sets, read off the configuration
Flat(schedule, always_send) ==
    [start_time |-> IF IsSet(schedule) THEN schedule[1].start_time ELSE <<>>,
     end_time |-> IF IsSet(schedule) THEN schedule[1].end_time ELSE <<>>,
     always_send |-> always_send]

\* the four layers of a camera and group, most specific first
LayersOf(cameraName, groupName) ==
    LET none == Flat(Absent, "undefined")
        hasCamera == cameraName \in DOMAIN config.cameras
        hasOverride == hasCamera /\ groupName \in DOMAIN config.cameras[cameraName].group_schedules
        named == {i \in 1..Len(config.groups) : config.groups[i].name = groupName}
    IN  <<IF hasOverride
          THEN Flat(config.cameras[cameraName].group_schedules[groupName].schedule,
                    config.cameras[cameraName].group_schedules[groupName].always_send)
          ELSE none,
          IF hasCamera
          THEN Flat(config.cameras[cameraName].schedule, config.cameras[cameraName].always_send)
          ELSE none,
          IF named # {}
          THEN Flat(config.groups[CHOOSE i \in named : TRUE].schedule,
                    config.groups[CHOOSE i \in named : TRUE].always_send)
          ELSE none,
          IF config.default_schedule # <<>> THEN config.default_schedule[1] ELSE none>>

Unset(field) == IF field = "always_send" THEN "undefined" ELSE <<>>

\* the layers that set a field
Setting(layers, field) == {k \in 1..Len(layers) : layers[k][field] # Unset(field)}

\* the value of the most specific layer that sets the field
FirstSet(layers, field) ==
    layers[CHOOSE k \in Setting(layers, field) : \A j \in Setting(layers, field) : k <= j][field]

ScheduleFields == {"start_time", "end_time", "always_send"}

\* C11: each of start_time, end_time and always_send of the resolved schedule
\* is, on its own, the value of the most specific layer that sets that field,
\* whichever layers the other two fields come from.
ResolutionIsFieldWise ==
    IsSet(resolved) =>
        \A field \in ScheduleFields :
            LET layers == LayersOf(resolved[1].cameraName, resolved[1].groupName)
            IN  Setting(layers, field) # {} =>
                    resolved[1].schedule[field] = FirstSet(layers, field)

\* the override gives 20:00 and no end, the camera ends at 07:00 and the group
\* has a whole window of its own: the answer is 20:00-07:00, always_send from
\* the group
FieldsFromDifferentLayers ==
    /\ IsSet(resolved)
    /\ resolved[1].cameraName = "cam"
    /\ resolved[1].groupName = "sec"
    /\ LET layers == LayersOf("cam", "sec")
       IN  /\ layers[1] = [start_time |-> HM("2", "0", "0", "0"), end_time |-> <<>>,
                           always_send |-> "undefined"]
           /\ layers[2] = [start_time |-> <<>>, end_time |-> HM("0", "7", "0", "0"),
                           always_send |-> "undefined"]
           /\ layers[3] = [start_time |-> HM("2", "2", "0", "0"),
                           end_time |-> HM("0", "6", "0", "0"), always_send |-> "false"]
    /\ resolved[1].schedule = [start_time |-> HM("2", "0", "0", "0"),
                               end_time |-> HM("0", "7", "0", "0"),
                               always_send |-> "false"]

\* C12: every resolution gives a start_time, an end_time and a boolean
\* always_send, a field no layer sets is 00:00, 23:59 or false, and
\* shouldAlertGroup returns.
ResolutionNeverFails ==
    IsSet(resolved) =>
        /\ resolved[1].schedule.start_time # <<>>
        /\ resolved[1].schedule.end_time # <<>>
        /\ resolved[1].schedule.always_send \in {"true", "false"}
        /\ ~resolved[1].alert.threw
        /\ LET layers == LayersOf(resolved[1].cameraName, resolved[1].groupName)
           IN  /\ Setting(layers, "start_time") = {} =>
                      resolved[1].schedule.start_time = HM("0", "0", "0", "0")
               /\ Setting(layers, "end_time") = {} =>
                      resolved[1].schedule.end_time = HM("2", "3", "5", "9")
               /\ Setting(layers, "always_send") = {} =>
                      resolved[1].schedule.always_send = "false"

\* minutes since midnight of a clock reading: getHours() * 60 + getMinutes()
MinuteOfDay(t) == ((t \div 3600) % 24) * 60 + (t % 3600) \div 60

\* minutes since midnight of a well-formed "HH:MM"
ClockMinutes(s) ==
    (DigitVal(s[1]) * 10 + DigitVal(s[2])) * 60 + DigitVal(s[4]) * 10 + DigitVal(s[5])

\* the minutes of the day a window covers
WindowMinutes(start, end) ==
    IF start <= end THEN start..end ELSE (start..(24 * 60 - 1)) \cup (0..end)

InWindow(schedule) ==
    MinuteOfDay(now) \in WindowMinutes(ClockMinutes(schedule.start_time),
                                       ClockMinutes(schedule.end_time))

\* C13: without always_send, shouldAlertGroup returns whether the minute of the
\* day lies in the resolved window, both ends included, a window whose start is
\* after its end running through midnight.
WindowTestIsInclusive ==
    (/\ IsSet(resolved)
     /\ resolved[1].schedule.always_send # "true"
     /\ ~resolved[1].alert.threw)
    => resolved[1].alert.val = InWindow(resolved[1].schedule)

\* asked within the minute of 06:00 of the window 22:00-06:00, the answer is yes
InWindowAtItsLastMinute ==
    /\ IsSet(resolved)
    /\ resolved[1].schedule = [start_time |-> HM("2", "2", "0", "0"),
                               end_time |-> HM("0", "6", "0", "0"),
                               always_send |-> "false"]
    /\ now = 6 * 3600 + 30
    /\ resolved[1].alert = [threw |-> FALSE, val |-> TRUE]

\* C14: shouldAlertGroup returns true whenever the resolved always_send is
\* true, whatever the time and the window; otherwise what it returns is the
\* window test.
AlwaysSendOrWindow ==
    IsSet(resolved) =>
        IF resolved[1].schedule.always_send = "true"
        THEN resolved[1].alert = [threw |-> FALSE, val |-> TRUE]
        ELSE resolved[1].alert.threw \/ resolved[1].alert.val = InWindow(resolved[1].schedule)

\* always_send comes from the camera; the window 22:00-06:00 comes from the
\* group and does not hold noon, yet the answer at noon is yes
AlwaysSendOutsideWindow ==
    /\ IsSet(resolved)
    /\ resolved[1].schedule = [start_time |-> HM("2", "2", "0", "0"),
                               end_time |-> HM("0", "6", "0", "0"),
                               always_send |-> "true"]
    /\ LayersOf(resolved[1].cameraName, resolved[1].groupName)[2].always_send = "true"
    /\ now = 12 * 3600
    /\ ~InWindow(resolved[1].schedule)
    /\ resolved[1].alert = [threw |-> FALSE, val |-> TRUE]

-----------------------------------------------------------------------------
(* Properties of one media send *)

IsMediaSend(u) ==
    IsSet(u.send) /\ u.send[1].type = "media" /\ Len(u.send[1].deliveries) > 0

\* the delivery still has a post under way or a retry to come
Pending(delivery) == delivery.status \in {"posting", "waiting"}

\* C21: sendMediaAlertToGroups starts the delivery to every recipient at once
\* and waits for all of them: while a delivery is pending the send has not
\* returned, whatever became of the other deliveries; once all are settled the
\* send returned true, and the unit is done, exactly when every delivery was
\* accepted.
SendMediaWaitsForEveryDelivery ==
    \A i \in 1..Len(units) :
        IsMediaSend(units[i]) =>
            LET send == units[i].send[1]
            IN  /\ \A g \in 1..Len(send.deliveries) :
                       Pending(send.deliveries[g]) => units[i].pc = "sending"
                /\ Settled(send) => (units[i].pc = "done" <=> AllAccepted(send))

\* the first recipient turned the document down for good, the second accepted
\* it afterwards, and the send counted as failed
AcceptedBesideFailedDelivery ==
    \E i \in 1..Len(units) :
        /\ IsMediaSend(units[i])
        /\ Len(units[i].send[1].deliveries) = 2
        /\ units[i].send[1].deliveries[1].status = "failed"
        /\ units[i].send[1].deliveries[2].status = "ok"
        /\ units[i].pc \in Fetching

\* C22: once every recipient of a media send has accepted it, the unit is at
\* its end: the send is the last thing it did, so no later kind is fetched, no
\* other media is delivered and no text alert is sent.
MediaAcceptedByAllEndsUnit ==
    \A i \in 1..Len(units) :
        IsMediaSend(units[i]) /\ AllAccepted(units[i].send[1]) =>
            LET u == units[i]
                last == u.log[Len(u.log)]
            IN  /\ u.pc = "done"
                /\ last.op = "media" /\ last.kind = u.send[1].kind
                /\ \A e \in 1..Len(u.log) :
                       /\ u.log[e].op # "text"
                       /\ u.log[e].kind <= u.send[1].kind

\* the clip could not be fetched; both groups accepted the snapshot
SnapshotAcceptedByBoth ==
    \E i \in 1..Len(units) :
        /\ IsMediaSend(units[i])
        /\ units[i].send[1].kind = 2
        /\ Len(units[i].send[1].deliveries) = 2
        /\ AllAccepted(units[i].send[1])
        /\ units[i].pc = "done"

\* C23: the recipients of every send, of a media kind or of the text alert, are
\* the groups eligible when that send is made, not those eligible when the
\* event was handed over: a group whose window has closed since is left out,
\* and a group whose window has opened since is included.
RecipientsResolvedAtEachSend ==
    \A i \in 1..Len(units) :
        IsSet(units[i].send) =>
            DeliveryNames(units[i].send[1]) =
                EligibleNamesAt(units[i].event.camera, units[i].send[1].at)

\* the event was handed over as it began, at 21:55, when only security was in
\* its window; the send at 22:00 went to family alone
SentToGroupEligibleSince ==
    \E i \in 1..Len(units) :
        /\ IsSet(units[i].send)
        /\ units[i].event.start_time = StartOfRun
        /\ units[i].send[1].at = StartOfRun + ClockStep
        /\ EligibleNamesAt(units[i].event.camera, StartOfRun) = {"security"}
        /\ DeliveryNames(units[i].send[1]) = {"family"}

-----------------------------------------------------------------------------
(* Properties of the webhook payload *)

\* the group is configured, not disabled, and has a chat id
CanReceive(name) ==
    \E k \in 1..Len(config.groups) :
        /\ config.groups[k].name = name
        /\ config.groups[k].enabled # "false"
        /\ config.groups[k].chat_id # ""

\* C24 as stated: the groups of the webhook payload are the whole group list
\* configured for the camera.
WebhookListsEveryCameraGroup ==
    \A i \in 1..Len(units) :
        IsSet(units[i].webhook) =>
            units[i].webhook[1].groups = getGroupNamesForCamera(units[i].event.camera)

\* C24: the groups of the webhook payload are the groups of the camera's list
\* that are not disabled and have a chat id, in the order of the list, whether
\* or not their schedule makes them eligible.
WebhookListsReceivingCameraGroups ==
    \A i \in 1..Len(units) :
        IsSet(units[i].webhook) =>
            units[i].webhook[1].groups =
                SelectSeq(getGroupNamesForCamera(units[i].event.camera), CanReceive)

\* at hand-over only security is in its window, and the payload lists
\* security and family
WebhookListsGroupOutsideWindow ==
    \E i \in 1..Len(units) :
        /\ IsSet(units[i].webhook)
        /\ units[i].webhook[1].groups = <<"security", "family">>
        /\ units[i].event.start_time = StartOfRun
        /\ EligibleNamesAt(units[i].event.camera, StartOfRun) = {"security"}

-----------------------------------------------------------------------------
(* Properties of the assumed end_time *)

\* the unit's end_time was written locally
EndTimeAssumed(u) == IsSet(u.assumed) /\ IsSet(u.event.end_time)

\* the seconds between start_time and the end_time the unit holds
ClipSeconds(u) == u.event.end_time[1] - u.event.start_time

\* C25: an end_time written locally is start_time plus one duration, the same
\* for every unit whichever path wrote it, the timer of processEvent or the
\* wait of downloadVideo.
AssumedEndTimeIsOneConstant ==
    \A i, j \in 1..Len(units) :
        (EndTimeAssumed(units[i]) /\ EndTimeAssumed(units[j])) =>
            ClipSeconds(units[i]) = ClipSeconds(units[j])

\* C26: an end_time that a unit's event holds, from the source or written
\* locally, is never written again: no step of the unit changes it, the retries
\* of the clip download included.
EndTimeNeverOverwritten ==
    [][\A i \in 1..Len(units) :
          IsSet(units[i].event.end_time) =>
              units'[i].event.end_time = units[i].event.end_time]_vars

\* downloadVideo assumed the end_time before the first attempt for the clip;
\* the clip was requested a second time with the same end_time
EndTimeKeptByClipRetry ==
    \E i \in 1..Len(units) :
        /\ EndTimeAssumed(units[i])
        /\ ClipSeconds(units[i]) = 17
        /\ \E p \in 1..Len(units[i].log) :
              /\ units[i].log[p].op = "fetch"
              /\ units[i].log[p].kind = 1
              /\ units[i].log[p].attempt = 2

-----------------------------------------------------------------------------
(* Properties of a unit's failures *)

\* where a unit can stand while nothing it awaited has been left uncaught
Caught == {"prewait", "clipwait", "download", "backoff", "sending", "texting", "done"}

\* C27: no failure leaves a unit: after a failed media request, a rejected
\* document, a rejected text or a failed webhook post the unit stands at a step
\* of send() or at its end, never rejected with an error nothing catches.
NoFailureEscapesUnit ==
    \A i \in 1..Len(units) : units[i].pc \in Caught

\* the webhook post failed, the clip request failed, a group turned the snapshot
\* down for good, and a group turned the text alert down; the unit is at its end
FourFailuresAndDone ==
    \E i \in 1..Len(units) :
        LET u == units[i] IN
        /\ u.hook = "failed"
        /\ \E p \in 1..Len(u.log) : u.log[p].op = "fetch" /\ ~u.log[p].ok
        /\ \E p \in 1..Len(u.log) : u.log[p].op = "media" /\ u.log[p].kind = 2
        /\ u.accepted = {}
        /\ IsSet(u.send)
        /\ u.send[1].type = "text"
        /\ \E g \in 1..Len(u.send[1].deliveries) : u.send[1].deliveries[g].status = "failed"
        /\ u.pc = "done"

-----------------------------------------------------------------------------
(* Termination of a unit *)

\* C28: a unit makes at most MEDIA_RETRY_ATTEMPTS requests for each of the
\* three media kinds, and, every request being answered or failing in the end,
\* the unit that was handed an event reaches its end.
UnitReachesItsEnd ==
    /\ [](\A i \in 1..Len(units) :
             Len(FetchesOf(units[i])) <= Len(Downloaders) * MEDIA_RETRY_ATTEMPTS)
    /\ (units # <<>>) ~> (units # <<>> /\ units[1].pc = "done")

\* every attempt for every kind failed, the text alert was sent, and the unit
\* is at its end
EndAfterEveryAttempt ==
    \E i \in 1..Len(units) :
        /\ Len(FetchesOf(units[i])) = Len(Downloaders) * MEDIA_RETRY_ATTEMPTS
        /\ units[i].log[Len(units[i].log)].op = "text"
        /\ units[i].pc = "done"

-----------------------------------------------------------------------------
(* Properties of the poll loop beside its units *)

InFlight(u) == u.pc # "done"

\* C29: a scan hands over every surviving event of its list in the one step in
\* which it also rewrites the watermark and ends its cycle, each unit handed
\* over being still in flight then; and whether the timer can start the next
\* cycle depends on the ticks and cycles only, not on the units in flight.
ScanDoesNotWaitForUnits ==
    /\ [](ENABLED Tick <=> (ticks < MaxTicks /\ Cardinality(cycles) < MaxInFlight))
    /\ [][\A c \in Scanning :
             /\ \A k \in 1..Len(Handed) : InFlight(units'[Len(units) + k])
             /\ \A i \in 1..Len(units) : units'[i] = units[i]
             /\ Completed(c) => lastEvent' = Some(c.events[1].id)]_vars

\* one scan handed over two events, newest first, rewrote the watermark and
\* ended; a later tick has started its cycle while both units are in flight
TickedWhileTwoUnitsInFlight ==
    /\ Len(units) = 2
    /\ units[1].event.id > units[2].event.id
    /\ InFlight(units[1]) /\ InFlight(units[2])
    /\ IsSet(lastEvent)
    /\ lastTimestamp + 10 * 60 < now
    /\ \E c \in cycles : c.pc = "fetch" /\ c.n = Len(outcomes)

-----------------------------------------------------------------------------
(* Properties of units side by side *)

\* C30: units run side by side without hindering one another: a unit in flight
\* can take a step of its own wherever the other units stand, and a step of one
\* unit leaves every other unit as it was.
UnitsDoNotHinderOneAnother ==
    /\ [](\A i \in 1..Len(units) : InFlight(units[i]) => ENABLED StepOf(i))
    /\ [][\A i, j \in 1..Len(units) :
             (i # j /\ units'[i] # units[i]) => units'[j] = units[j]]_vars

\* the first unit has not got past its first wait; the second, handed over
\* after it, failed to fetch the clip, retried, and reached its end
SecondUnitEndedBesideStalledFirst ==
    /\ Len(units) = 2
    /\ units[1].pc \in {"prewait", "clipwait"}
    /\ units[1].log = <<>>
    /\ units[2].pc = "done"
    /\ \E p \in 1..Len(units[2].log) : units[2].log[p].op = "wait"

-----------------------------------------------------------------------------
(* Properties of a camera's group list *)

\* the names a configuration lists for a camera: the camera's own list when it
\* has one, else the default list when there is one, else every group
ListedFor(cameraName) ==
    LET own == IF cameraName \in DOMAIN config.cameras
               THEN config.cameras[cameraName].groups ELSE Absent
        list == IF own # Absent THEN own[1]
                ELSE IF config.default_groups # Absent THEN config.default_groups[1]
                ELSE [k \in 1..Len(config.groups) |-> config.groups[k].name]
    IN  {list[n] : n \in 1..Len(list)}

\* the chat ids the configuration gives a name; none for an unknown name
ChatIdsOf(name) ==
    {config.groups[k].chat_id : k \in {k \in 1..Len(config.groups) :
                                           config.groups[k].name = name}} \ {""}

-----------------------------------------------------------------------------
(* Properties of the label allow-list *)

\* the labels the source gives its events
Labels == {"person", "car"}

\* C32: isLabelAllowed is true for every label when the event's camera has no
\* labels list or is not configured, and otherwise true exactly for the labels
\* of the list, whatever label an event of the feed carries.
LabelAllowedIffNoListOrListed ==
    \A p \in 1..Len(feed) : \A label \in Labels :
        LET event == [feed[p] EXCEPT !.label = label]
            cameraConfig == IF event.camera \in DOMAIN config.cameras
                            THEN config.cameras[event.camera]
                            ELSE [labels |-> Absent]
        IN  isLabelAllowed(event) <=>
                \/ cameraConfig.labels = Absent
                \/ \E n \in 1..Len(cameraConfig.labels[1]) :
                      cameraConfig.labels[1][n] = event.label

\* a scan passed over an event for its label, the camera's list naming
\* another label only, and handed over an event of a camera without a list
DroppedUnlistedKeptUnfiltered ==
    /\ \E s \in skipped : \E p \in 1..Len(feed) :
          /\ s.why = "label"
          /\ feed[p].id = s.id
          /\ feed[p].camera \in DOMAIN config.cameras
          /\ config.cameras[feed[p].camera].labels = Some(<<"person">>)
          /\ feed[p].label = "car"
          /\ isLabelAllowed([feed[p] EXCEPT !.label = "person"])
    /\ \E i \in 1..Len(units) :
          /\ units[i].event.camera \in DOMAIN config.cameras
          /\ config.cameras[units[i].event.camera].labels = Absent

-----------------------------------------------------------------------------
(* Properties of the configuration *)

\* the group names the configurations and their cameras' lists use
AskedGroups == {"family", "security", "off", "nochat", "ghost"}

SecondsOfDay == 24 * 3600

\* C33: no step of a unit (hand-over, webhook answer, timer, media fetch,
\* delivery) and no passing of time modifies the configuration; the schedule
\* resolved for a camera and group is the same after the step as before it,
\* and so is shouldAlertGroup whenever the time of day is the same (asked for
\* the camera of each unit and every group name).
ConfigurationIsOnlyRead ==
    [][/\ config' = config
       /\ \A cameraName \in {units'[i].event.camera : i \in 1..Len(units')},
             groupName \in AskedGroups :
             /\ getScheduleForCameraAndGroup(cameraName, groupName)'
                    = getScheduleForCameraAndGroup(cameraName, groupName)
             /\ (now' % SecondsOfDay = now % SecondsOfDay)
                    => shouldAlertGroup(cameraName, groupName)'
                           = shouldAlertGroup(cameraName, groupName)]_vars

\* a unit ran to its end (webhook answered, media fetched, a send made after
\* the clock moved) under the configuration the run started with
UnitEndedUnderConfigurationOfStart ==
    \E i \in 1..Len(units) :
        /\ units[i].pc = "done"
        /\ units[i].hook \in {"ok", "failed"}
        /\ Len(FetchesOf(units[i])) > 0
        /\ IsSet(units[i].send)
        /\ units[i].send[1].at > units[i].event.start_time
        /\ config = ConfigNight

-----------------------------------------------------------------------------
(* The anchored resolution against a scan of all four layers *)

\* the four layers with the built-in schedule in the place of a default
\* schedule the configuration does not give
FourLayers(cameraName, groupName) ==
    [LayersOf(cameraName, groupName) EXCEPT
        ![4] = IF config.default_schedule = Absent
               THEN [start_time |-> HM("0", "0", "0", "0"),
                     end_time |-> HM("2", "3", "5", "9"),
                     always_send |-> "false"]
               ELSE @]

\* each field on its own: the value of the first of all four layers that sets
\* it; a time no layer sets stays unset and always_send is then false
FirstOfAllLayers(cameraName, groupName) ==
    LET layers == FourLayers(cameraName, groupName)
    IN  [field \in ScheduleFields |->
            IF Setting(layers, field) # {} THEN FirstSet(layers, field)
            ELSE IF field = "always_send" THEN "false" ELSE Unset(field)]

\* the most specific layer that sets any field, 4 when none above does
AnchorOf(cameraName, groupName) ==
    LET layers == LayersOf(cameraName, groupName)
        any == {k \in 1..3 : \E field \in ScheduleFields : layers[k][field] # Unset(field)}
    IN  IF any = {} THEN 4 ELSE CHOOSE k \in any : \A j \in any : k <= j

\* C34: for every layered configuration the schedule resolved from the anchor
\* layer downward is the schedule got by taking each field from the first of
\* all four layers that sets it, wherever the anchor lies.
AnchoredResolutionIsFullScan ==
    IsSet(resolved) =>
        resolved[1].schedule = FirstOfAllLayers(resolved[1].cameraName, resolved[1].groupName)

\* the override sets nothing, the camera sets always_send alone and is the
\* anchor, the window comes from the group below it
AnchorBelowOverrideWindowFromGroup ==
    /\ IsSet(resolved)
    /\ resolved[1].cameraName = "cam"
    /\ resolved[1].groupName = "sec"
    /\ AnchorOf("cam", "sec") = 2
    /\ LET layers == LayersOf("cam", "sec")
       IN  /\ layers[2] = [start_time |-> <<>>, end_time |-> <<>>, always_send |-> "false"]
           /\ layers[3] = [start_time |-> HM("2", "2", "0", "0"),
                           end_time |-> HM("0", "6", "0", "0"), always_send |-> "true"]
    /\ resolved[1].schedule = [start_time |-> HM("2", "2", "0", "0"),
                               end_time |-> HM("0", "6", "0", "0"),
                               always_send |-> "false"]

-----------------------------------------------------------------------------
(* Properties of the watermark over the cycles *)

\* C35: the watermark never moves backward: a step never replaces the event
\* id held in lastEvent by the id of an older event (the source numbers its
\* events in the order it publishes them).
WatermarkNeverMovesBackward ==
    [][(IsSet(lastEvent) /\ IsSet(lastEvent')) => lastEvent'[1] >= lastEvent[1]]_vars


\* C36: every event that stands before the watermark's event in the list of a
\* cycle whose fetch succeeded is scanned by that cycle: it is passed over by
\* a filter or handed to processEvent, and it is handed over when it passes
\* the label, schedule and cutoff filters of a scan that runs to its end.
NewEventsAreScanned ==
    [][\A c \in Scanning : \A p \in BeforeWatermark(c.events) :
          /\ \/ c.events[p].id \in HandedIds
             \/ \E s \in skipped' : s.id = c.events[p].id
          /\ (/\ Completed(c)
              /\ LabelListed(c.events[p])
              /\ SomeGroupAlerts(c.events[p])
              /\ c.events[p].start_time >= lastTimestamp)
             => c.events[p].id \in HandedIds]_vars


\* C37: an event that a scan passed over for its label, its schedule or the
\* cutoff is never handed to processEvent by a later scan, also when its
\* schedule window has opened in between.
DroppedNeverHandedLater ==
    [][\A c \in Scanning : \A k \in 1..Len(Handed) :
          ~\E s \in skipped : s.id = Handed[k].id]_vars


\* C38: a cycle whose fetch resolves with an empty list ends there: it starts
\* no grace wait, hands no event over and leaves lastEvent and lastTimestamp
\* as they are, unset included; no cycle is ever in its grace wait with an
\* empty list.
EmptyFetchChangesNothing ==
    [][/\ \A c \in cycles :
             (c.pc = "fetch" /\ Len(c.events) = 0 /\ c \notin cycles') =>
                 /\ ~\E d \in cycles' : d.n = c.n
                 /\ units' = units
                 /\ lastEvent' = lastEvent
                 /\ lastTimestamp' = lastTimestamp
       /\ \A d \in cycles' : d.pc = "grace" => Len(d.events) > 0]_vars

\* one cycle ended on an empty list, another scanned and set the watermark,
\* and the watermark stands
EmptyCycleEndedBesideWatermark ==
    \E n \in 1..Len(outcomes) :
        /\ outcomes[n] = "empty"
        /\ \E m \in 1..Len(outcomes) : outcomes[m] = "scanned"
        /\ IsSet(lastEvent)
        /\ cycles = {}

-----------------------------------------------------------------------------
(* Properties of a media send that finds no group *)

\* C39: a media send that starts when no group of the camera is eligible
\* makes no delivery, and the unit goes on instead of ending: what it does
\* next is the download of the next media kind, and until its next send it
\* only downloads later kinds.
SendToNobodyGoesOnToNextKind ==
    \A i \in 1..Len(units) :
        (/\ IsSet(units[i].send)
         /\ units[i].send[1].type = "media"
         /\ EligibleNamesAt(units[i].event.camera, units[i].send[1].at) = {})
        => /\ units[i].send[1].deliveries = <<>>
           /\ units[i].send[1].kind < Len(Downloaders)
           /\ units[i].kind > units[i].send[1].kind
           /\ units[i].pc \in Fetching
           /\ LET log == units[i].log
                  sends == {j \in 1..Len(log) : log[j].op = "media"}
              IN  \A j \in 1..Len(log) :
                      (\A m \in sends : m < j) =>
                          /\ log[j].op \in {"fetch", "wait"}
                          /\ log[j].kind > units[i].send[1].kind
                          /\ (j - 1 \in sends) => log[j].kind = units[i].send[1].kind + 1

\* handed over at 21:55 with security in its window; the clip arrived at 22:00
\* when no group was left, and the unit is downloading the snapshot
SnapshotFetchedAfterSendToNobody ==
    \E i \in 1..Len(units) :
        /\ units[i].event.start_time = StartOfRun
        /\ EligibleNamesAt(units[i].event.camera, StartOfRun) = {"security"}
        /\ IsSet(units[i].send)
        /\ units[i].send[1].type = "media"
        /\ units[i].send[1].kind = 1
        /\ units[i].send[1].at = StartOfRun + ClockStep
        /\ EligibleNamesAt(units[i].event.camera, units[i].send[1].at) = {}
        /\ units[i].send[1].deliveries = <<>>
        /\ units[i].kind = 2
        /\ units[i].pc = "download"

-----------------------------------------------------------------------------
(* Properties of the webhook over the events *)

\* the calls of processEvent for an event id that posted the webhook
WebhookPostsFor(id) ==
    {i \in 1..Len(units) : units[i].event.id = id /\ IsSet(units[i].webhook)}

\* C40: with a webhook URL configured the webhook is posted exactly once for
\* each event handed to processEvent, before any media request of that event,
\* and never for an event that was only passed over; without a URL it is
\* never posted.
WebhookOncePerHandedEvent ==
    /\ \A id \in UnitIds \cup {s.id : s \in skipped} :
          IF WEBHOOK_URL = "" THEN WebhookPostsFor(id) = {}
          ELSE IF id \in UnitIds THEN Cardinality(WebhookPostsFor(id)) = 1
          ELSE WebhookPostsFor(id) = {}
    /\ \A i \in 1..Len(units) :
          (WEBHOOK_URL # "" /\ Len(units[i].log) > 0) => units[i].hook # "none"

====
